---- MODULE Spec2Model ----
(***************************************************************************)
(* Model of the knowledge-intelligence engine of the fossil vault:         *)
(* tokenizer/similarity (utils/autolink.js), graph building and layout     *)
(* (utils/graph.js), decay scoring, resurfacing and conflict detection     *)
(* (utils/intelligence.js) and the chain traversals of App.jsx.            *)
(*                                                                         *)
(* The engine's functions are pure: each specification below draws the     *)
(* inputs of one group of functions in its Init and applies the functions  *)
(* in its actions; `op' names the call that produced `res'.                *)
(*                                                                         *)
(* Numbers: a similarity is the exact fraction <<intersection, union>>;    *)
(* thresholds are written in hundredths (0.30 is 30) and compared by       *)
(* cross-multiplication, which agrees with the IEEE comparison of the      *)
(* quotient for the small integers involved.                               *)
(***************************************************************************)
EXTENDS Integers, Sequences, FiniteSets, TLC

VARIABLES
  fossils,     \* the record list handed to the call (data.fossils)
  tokenIndex,  \* Map id -> token set (fossilTokenIndex)
  arg,         \* the remaining arguments of the call
  now,         \* Date.now(), in hours
  op,          \* name of the last call, "none" before any call
  res,         \* value returned by the last call
  pc,          \* position of the running chain traversal
  root,        \* findRelatedFossils: the `root' of the while loop
  chainIds,    \* findRelatedFossils: the chainIds set
  stack,       \* findRelatedFossils: frames of findDescendants
  cur,         \* getTrail: cur
  seen,        \* getTrail: seen
  trail,       \* getTrail: trail
  cache,       \* tokenize: the memo Map, entries in insertion order
  heap,        \* contents of the Set objects allocated so far, by reference
  calls        \* log of the tokenize calls made so far

vars == <<fossils, tokenIndex, arg, now, op, res, pc, root, chainIds, stack,
          cur, seen, trail, cache, heap, calls>>

\* ---------------------------------------------------------------- bounds
MaxTok == 4          \* token universe of the similarity inputs is 1..MaxTok
MaxFossils == 3      \* longest record list of the graph inputs

\* -------------------------------------------------------------- JS values
Null == 0                              \* null id (reentryOf, supersededBy)
JsNull == [t |-> "null"]
JsUndefined == [t |-> "undefined"]
JsSet(S) == [t |-> "Set", v |-> S]
JsString(s) == [t |-> "string", v |-> s]
IsSet(a) == a.t = "Set"

\* a?.size is truthy: a is a Set with at least one member
HasSize(a) == IsSet(a) /\ Cardinality(a.v) > 0

\* ------------------------------------------------------------- fractions
Zero == <<0, 1>>
One == <<1, 1>>
FracEq(p, q) == p[1] * q[2] = q[1] * p[2]
FracLe(p, q) == p[1] * q[2] <= q[1] * p[2]
\* p >= h/100 and p < h/100 for a threshold h given in hundredths
AtLeastPct(p, h) == p[1] * 100 >= h * p[2]
BelowPct(p, h) == p[1] * 100 < h * p[2]

\* ---------------------------------------------------- program constants
CONFLICT_THRESHOLD_MIN == 25
CONFLICT_THRESHOLD_MAX == 85
SEMANTIC_EDGE_THRESHOLD == 30

\* ------------------------------------------------------------ getJaccard
\* the for-of loop over `smaller' counting the members `larger' has
RECURSIVE CountIn(_, _)
CountIn(smaller, larger) ==
  IF smaller = {} THEN 0
  ELSE LET x == CHOOSE y \in smaller : TRUE
       IN  (IF x \in larger THEN 1 ELSE 0) + CountIn(smaller \ {x}, larger)

\* the quotient, once the sizes and the intersection count are known
JaccardQuotientNoSubtract(sa, sb, intersection) ==
  IF sa + sb # 0 THEN <<intersection, sa + sb>> ELSE Zero

JaccardQuotient(sa, sb, intersection) ==
  IF sa + sb - intersection # 0
  THEN <<intersection, sa + sb - intersection>> ELSE Zero

getJaccard(a, b) ==
  IF ~HasSize(a) \/ ~HasSize(b) THEN Zero
  ELSE JaccardQuotient(Cardinality(a.v), Cardinality(b.v),
                       IF Cardinality(a.v) < Cardinality(b.v)
                       THEN CountIn(a.v, b.v) ELSE CountIn(b.v, a.v))

\* --------------------------------------------------------------- strings
\* A string is the sequence of its characters.
LowerLetters == <<"a", "b", "c", "d", "e", "f", "g", "h", "i", "j", "k", "l", "m", "n", "o", "p", "q", "r", "s", "t", "u", "v", "w", "x", "y", "z">>
UpperLetters == <<"A", "B", "C", "D", "E", "F", "G", "H", "I", "J", "K", "L", "M", "N", "O", "P", "Q", "R", "S", "T", "U", "V", "W", "X", "Y", "Z">>
Digits == {"0", "1", "2", "3", "4", "5", "6", "7", "8", "9"}
Space == " "

SeqToSet(s) == {s[i] : i \in 1..Len(s)}
LowerSet == SeqToSet(LowerLetters)
UpperSet == SeqToSet(UpperLetters)
LowerOf ==
  [c \in UpperSet |-> LowerLetters[CHOOSE k \in 1..Len(UpperLetters) : UpperLetters[k] = c]]

\* String.prototype.toLowerCase, one character
LowerChar(c) == IF c \in UpperSet THEN LowerOf[c] ELSE c
RECURSIVE LowerFrom(_, _)
LowerFrom(s, i) ==
  IF i > Len(s) THEN <<>> ELSE <<LowerChar(s[i])>> \o LowerFrom(s, i + 1)
toLowerCase(s) == LowerFrom(s, 1)

\* the character classes [a-z0-9], [a-z0-9'-], \w and \s
AlnumLowerSet == LowerSet \cup Digits
TokenCharSet == AlnumLowerSet \cup {"'", "-"}
WordCharSet == LowerSet \cup UpperSet \cup Digits \cup {"_"}
IsAlnumLower(c) == c \in AlnumLowerSet
IsTokenCharOrUnderscore(c) == c \in TokenCharSet \cup {"_"}
IsTokenChar(c) == c \in TokenCharSet
IsWordChar(c) == c \in WordCharSet
IsWhitespace(c) == c = Space

\* the words of a text joined by single spaces
RECURSIVE Words(_)
Words(ws) ==
  IF ws = <<>> THEN <<>>
  ELSE IF Len(ws) = 1 THEN ws[1]
  ELSE ws[1] \o <<Space>> \o Words(Tail(ws))

\* -------------------------------------------------------------- tokenize
\* end of the longest run of [a-z0-9'-] that starts at i
RECURSIVE RunEnd(_, _)
RunEnd(s, i) ==
  IF i < Len(s) /\ IsTokenChar(s[i + 1]) THEN RunEnd(s, i + 1) ELSE i

\* s.match(/[a-z0-9][a-z0-9'-]{2,}/g): the matches found scanning from i
RECURSIVE MatchTokens(_, _)
MatchTokens(s, i) ==
  IF i > Len(s) THEN {}
  ELSE IF IsAlnumLower(s[i])
       THEN LET e == RunEnd(s, i)
            IN  IF e - i + 1 >= 3
                THEN {SubSeq(s, i, e)} \cup MatchTokens(s, e + 1)
                ELSE MatchTokens(s, i + 1)
       ELSE MatchTokens(s, i + 1)

\* tokenize(s) without its memo cache: the empty Set for a falsy string
tokenize(s) ==
  IF s = <<>> THEN JsSet({}) ELSE JsSet(MatchTokens(toLowerCase(s), 1))

\* ------------------------------------------- negation and antonym signals
ANTONYM_PAIRS == <<
  <<<<"i", "n", "c", "r", "e", "a", "s", "e">>,
    <<"d", "e", "c", "r", "e", "a", "s", "e">>>>,
  <<<<"g", "r", "o", "w">>,
    <<"s", "h", "r", "i", "n", "k">>>>,
  <<<<"a", "l", "w", "a", "y", "s">>,
    <<"n", "e", "v", "e", "r">>>>,
  <<<<"m", "o", "r", "e">>,
    <<"l", "e", "s", "s">>>>,
  <<<<"b", "e", "t", "t", "e", "r">>,
    <<"w", "o", "r", "s", "e">>>>,
  <<<<"s", "u", "c", "c", "e", "s", "s">>,
    <<"f", "a", "i", "l", "u", "r", "e">>>>,
  <<<<"e", "n", "a", "b", "l", "e">>,
    <<"p", "r", "e", "v", "e", "n", "t">>>>,
  <<<<"r", "e", "q", "u", "i", "r", "e">>,
    <<"o", "p", "t", "i", "o", "n", "a", "l">>>>,
  <<<<"m", "u", "s", "t">>,
    <<"s", "h", "o", "u", "l", "d">>>>,
  <<<<"a", "c", "c", "e", "l", "e", "r", "a", "t", "e">>,
    <<"d", "e", "c", "e", "l", "e", "r", "a", "t", "e">>>>,
  <<<<"e", "x", "p", "a", "n", "d">>,
    <<"c", "o", "n", "t", "r", "a", "c", "t">>>>,
  <<<<"s", "i", "m", "p", "l", "e">>,
    <<"c", "o", "m", "p", "l", "e", "x">>>>,
  <<<<"f", "a", "s", "t">>,
    <<"s", "l", "o", "w">>>>,
  <<<<"h", "i", "g", "h">>,
    <<"l", "o", "w">>>>,
  <<<<"s", "t", "a", "r", "t">>,
    <<"s", "t", "o", "p">>>>,
  <<<<"o", "p", "e", "n">>,
    <<"c", "l", "o", "s", "e">>>> >>

NEGATION_PATTERNS == <<
  <<"n", "o", "t">>,
  <<"n", "e", "v", "e", "r">>,
  <<"c", "a", "n", "'", "t">>,
  <<"c", "a", "n", "n", "o", "t">>,
  <<"w", "o", "n", "'", "t">>,
  <<"i", "s", "n", "'", "t">>,
  <<"a", "r", "e", "n", "'", "t">>,
  <<"w", "i", "t", "h", "o", "u", "t">>,
  <<"c", "o", "n", "t", "r", "a", "r", "y">>,
  <<"o", "p", "p", "o", "s", "i", "t", "e">>,
  <<"f", "a", "i", "l", "s">>,
  <<"d", "o", "e", "s", "n", "'", "t">> >>

\* the positions of a text where \b holds before a word character
WordStarts(text) ==
  {i \in 1..Len(text) : IsWordChar(text[i]) /\ (i = 1 \/ ~IsWordChar(text[i - 1]))}

\* /\bword\b/i matches at one of the given word starts
RegexWordAt(word, text, starts) ==
  \E i \in starts :
    /\ i + Len(word) - 1 <= Len(text)
    /\ \A k \in 1..Len(word) : LowerChar(text[i + k - 1]) = word[k]
    /\ (i + Len(word) > Len(text) \/ ~IsWordChar(text[i + Len(word)]))

\* NEGATION_PATTERNS.some(p => p.test(text)); every pattern begins and ends
\* with a letter, so a match begins at a word start
NegationAt(text, starts) ==
  \E p \in 1..Len(NEGATION_PATTERNS) : RegexWordAt(NEGATION_PATTERNS[p], text, starts)
HasNegation(text) == NegationAt(text, WordStarts(text))

\* s.split(/\s+/): the pieces between the runs of whitespace
RECURSIVE SplitFrom(_, _, _, _)
SplitFrom(s, i, piece, inRun) ==
  IF i > Len(s) THEN <<piece>>
  ELSE IF IsWhitespace(s[i])
       THEN IF inRun THEN SplitFrom(s, i + 1, piece, TRUE)
            ELSE <<piece>> \o SplitFrom(s, i + 1, <<>>, TRUE)
       ELSE SplitFrom(s, i + 1, Append(piece, s[i]), FALSE)
splitWhitespace(s) == SplitFrom(s, 1, <<>>, FALSE)

includes(arr, x) == \E i \in 1..Len(arr) : arr[i] = x

\* the for loop over ANTONYM_PAIRS, given the two word arrays
OppositionsOf(tokensA, tokensB) ==
  LET Opposed(pr) ==
        \/ includes(tokensA, pr[1]) /\ includes(tokensB, pr[2])
        \/ includes(tokensA, pr[2]) /\ includes(tokensB, pr[1])
  IN  SelectSeq(ANTONYM_PAIRS, Opposed)

detectSemanticOpposition(textA, textB) ==
  OppositionsOf(splitWhitespace(toLowerCase(textA)),
                splitWhitespace(toLowerCase(textB)))

\* ------------------------------------------------------------- records
\* the record factory of the tests: every field at its default (the two
\* texts default to the empty string)
createFossil(id) ==
  [id |-> id, dayKey |-> 1, createdAt |-> 0,
   probeIntent |-> <<>>, invariant |-> <<>>, quality |-> 3,
   deleted |-> FALSE, reuseCount |-> 0, reinforceCount |-> 0,
   dismissCount |-> 0, skipCount |-> 0, lastRevisitedAt |-> Null,
   dismissedUntil |-> Null, supersededBy |-> Null, reentryOf |-> Null]

SeqRange(s) == {s[i] : i \in 1..Len(s)}

\* tokenIndex.get(id): undefined for an id the Map has no entry for
IndexGet(index, id) == IF id \in DOMAIN index THEN index[id] ELSE JsUndefined

\* -------------------------------------------------------- buildGraphData
\* fossils.filter(f => !f.deleted)
visibleOf(fs) == SelectSeq(fs, LAMBDA f : ~f.deleted)

\* the nodes.push loop; cluster starts at 0
BuildNodes(visible) ==
  [i \in 1..Len(visible) |-> [id |-> visible[i].id, cluster |-> 0]]

\* the reentry edge of visible[i], if its parent is visible
ReentryEdgeAnyParent(visible, i) ==
  IF visible[i].reentryOf # Null
  THEN <<[source |-> visible[i].id, target |-> visible[i].reentryOf,
          type |-> "reentry", weight |-> One]>>
  ELSE <<>>

ReentryEdge(visible, i) ==
  IF visible[i].reentryOf # Null
     /\ \E k \in 1..Len(visible) : visible[k].id = visible[i].reentryOf
  THEN <<[source |-> visible[i].id, target |-> visible[i].reentryOf,
          type |-> "reentry", weight |-> One]>>
  ELSE <<>>

\* the inner loop over j = i+1 .. : semantic edges of visible[i]
RECURSIVE SemanticEdgesNoSkip(_, _, _, _)
SemanticEdgesNoSkip(visible, index, i, j) ==
  IF j > Len(visible) THEN <<>>
  ELSE LET fA == visible[i]
           fB == visible[j]
           similarity == getJaccard(IndexGet(index, fA.id), IndexGet(index, fB.id))
           rest == SemanticEdgesNoSkip(visible, index, i, j + 1)
       IN  IF AtLeastPct(similarity, SEMANTIC_EDGE_THRESHOLD)
           THEN <<[source |-> fA.id, target |-> fB.id,
                   type |-> "semantic", weight |-> similarity]>> \o rest
           ELSE rest

RECURSIVE SemanticEdges(_, _, _, _)
SemanticEdges(visible, index, i, j) ==
  IF j > Len(visible) THEN <<>>
  ELSE LET fA == visible[i]
           fB == visible[j]
           similarity == getJaccard(IndexGet(index, fA.id), IndexGet(index, fB.id))
           rest == SemanticEdges(visible, index, i, j + 1)
       IN  IF fA.reentryOf = fB.id \/ fB.reentryOf = fA.id THEN rest
           ELSE IF AtLeastPct(similarity, SEMANTIC_EDGE_THRESHOLD)
           THEN <<[source |-> fA.id, target |-> fB.id,
                   type |-> "semantic", weight |-> similarity]>> \o rest
           ELSE rest

\* the outer loop over i
RECURSIVE BuildEdges(_, _, _)
BuildEdges(visible, index, i) ==
  IF i > Len(visible) THEN <<>>
  ELSE ReentryEdge(visible, i) \o SemanticEdges(visible, index, i, i + 1)
       \o BuildEdges(visible, index, i + 1)

\* adjacency.get(id) || [] after edges.forEach: the neighbours in push order
RECURSIVE AdjacencyOneWay(_, _)
AdjacencyOneWay(edges, id) ==
  IF edges = <<>> THEN <<>>
  ELSE LET e == Head(edges)
       IN  (IF e.source = id THEN <<e.target>> ELSE <<>>)
           \o AdjacencyOneWay(Tail(edges), id)

RECURSIVE Adjacency(_, _)
Adjacency(edges, id) ==
  IF edges = <<>> THEN <<>>
  ELSE LET e == Head(edges)
       IN  (IF e.source = id THEN <<e.target>> ELSE <<>>)
           \o (IF e.target = id THEN <<e.source>> ELSE <<>>)
           \o Adjacency(Tail(edges), id)

\* dfs(nodeId, cluster); st = [visited, cluster] is the closure state
RECURSIVE dfs(_, _, _, _)
RECURSIVE dfsEach(_, _, _, _, _)
dfs(edges, nodeId, c, st) ==
  IF nodeId \in st.visited THEN st
  ELSE dfsEach(edges, Adjacency(edges, nodeId), 1, c,
               [visited |-> st.visited \cup {nodeId},
                cluster |-> IF nodeId \in DOMAIN st.cluster
                            THEN [st.cluster EXCEPT ![nodeId] = c]
                            ELSE st.cluster])
dfsEach(edges, neighbors, k, c, st) ==
  IF k > Len(neighbors) THEN st
  ELSE dfsEach(edges, neighbors, k + 1, c, dfs(edges, neighbors[k], c, st))

\* nodes.forEach(node => { if (!visited.has(node.id)) { dfs; clusterIdx++ } })
RECURSIVE AssignClusters(_, _, _, _, _)
AssignClusters(nodes, edges, k, clusterIdx, st) ==
  IF k > Len(nodes) THEN [cluster |-> st.cluster, clusterCount |-> clusterIdx]
  ELSE IF nodes[k].id \in st.visited
       THEN AssignClusters(nodes, edges, k + 1, clusterIdx, st)
       ELSE AssignClusters(nodes, edges, k + 1, clusterIdx + 1,
                           dfs(edges, nodes[k].id, clusterIdx, st))

buildGraphData(fs, index) ==
  LET visibleFossils == visibleOf(fs)
      nodes0 == BuildNodes(visibleFossils)
      edges == BuildEdges(visibleFossils, index, 1)
      ids == {nodes0[i].id : i \in 1..Len(nodes0)}
      done == AssignClusters(nodes0, edges, 1, 0,
                             [visited |-> {}, cluster |-> [id \in ids |-> 0]])
  IN  [nodes |-> [i \in 1..Len(nodes0) |->
                    [id |-> nodes0[i].id, cluster |-> done.cluster[nodes0[i].id]]],
       edges |-> edges,
       clusterCount |-> done.clusterCount]

\* ------------------------------------------------- graphData (App.jsx)
\* a manual edge as the application keeps it: {source, target}
Edge(source, target) == [source |-> source, target |-> target]
MANUAL_WEIGHT == <<4, 5>>

\* manualEdges.forEach: the manual edges whose two ends are nodes
RECURSIVE ManualEdgesFor(_, _)
ManualEdgesFor(manualEdges, nodes) ==
  IF manualEdges = <<>> THEN <<>>
  ELSE LET edge == Head(manualEdges)
           sourceExists == \E k \in 1..Len(nodes) : nodes[k].id = edge.source
           targetExists == \E k \in 1..Len(nodes) : nodes[k].id = edge.target
       IN  (IF sourceExists /\ targetExists
            THEN <<[source |-> edge.source, target |-> edge.target,
                    type |-> "manual", weight |-> MANUAL_WEIGHT]>>
            ELSE <<>>)
           \o ManualEdgesFor(Tail(manualEdges), nodes)

\* the graph `graphData' holds when the view is the graph view:
\* buildGraphData, then the manual edges pushed onto its edge list.
\* layoutGraph, called last, writes the x, y, vx and vy of the nodes, which
\* the nodes of this model do not carry.
graphData(fs, index, manualEdges) ==
  LET graphResult == buildGraphData(visibleOf(fs), index)
  IN  [graphResult EXCEPT
         !.edges = graphResult.edges \o ManualEdgesFor(manualEdges, graphResult.nodes)]

\* ------------------------------------------------------- detectConflicts
\* Math.round(similarity * 100)
RoundPct(p) == (200 * p[1] + p[2]) \div (2 * p[2])

\* similarity >= CONFLICT_THRESHOLD_MIN && similarity < CONFLICT_THRESHOLD_MAX
InConflictBandNoMax(similarity) ==
  AtLeastPct(similarity, CONFLICT_THRESHOLD_MIN)

InConflictBand(similarity) ==
  /\ AtLeastPct(similarity, CONFLICT_THRESHOLD_MIN)
  /\ BelowPct(similarity, CONFLICT_THRESHOLD_MAX)

\* reason: negationConflict ? 'negation' : 'semantic'
ConflictReasonSemanticFirst(negationConflict, oppositions) ==
  IF oppositions # <<>> THEN "semantic" ELSE "negation"

ConflictReason(negationConflict, oppositions) ==
  IF negationConflict THEN "negation" ELSE "semantic"

\* tokenIndex.get(fossil.id) || tokenize(fossil.invariant || '')
TokensFor(index, f) ==
  IF IndexGet(index, f.id) # JsUndefined
  THEN IndexGet(index, f.id) ELSE tokenize(f.invariant)

\* conflicts.push({...}) once the similarity and the signals are known
PushConflict(f, similarity, negationConflict, oppositions) ==
  IF InConflictBand(similarity) /\ (negationConflict \/ oppositions # <<>>)
  THEN <<[fossil |-> f,
          similarity |-> RoundPct(similarity),
          reason |-> ConflictReason(negationConflict, oppositions),
          oppositions |-> oppositions]>>
  ELSE <<>>

\* body of the for loop: the entry pushed for one record, if any
ConflictEntry(newInvariant, newTokens, newHasNegation, f, index) ==
  IF f.deleted \/ f.supersededBy # Null THEN <<>>
  ELSE PushConflict(f,
                    getJaccard(newTokens, TokensFor(index, f)),
                    newHasNegation # HasNegation(f.invariant),
                    detectSemanticOpposition(newInvariant, f.invariant))

RECURSIVE ConflictEntries(_, _, _, _, _)
ConflictEntries(newInvariant, newTokens, newHasNegation, fs, index) ==
  IF fs = <<>> THEN <<>>
  ELSE ConflictEntry(newInvariant, newTokens, newHasNegation, Head(fs), index)
       \o ConflictEntries(newInvariant, newTokens, newHasNegation, Tail(fs), index)

\* arr.sort((a, b) => b.similarity - a.similarity), which is stable
RECURSIVE InsertBySimilarity(_, _)
InsertBySimilarity(sorted, x) ==
  IF sorted = <<>> THEN <<x>>
  ELSE IF Head(sorted).similarity >= x.similarity
       THEN <<Head(sorted)>> \o InsertBySimilarity(Tail(sorted), x)
       ELSE <<x>> \o sorted
RECURSIVE SortBySimilarity(_)
SortBySimilarity(arr) ==
  IF arr = <<>> THEN <<>>
  ELSE InsertBySimilarity(SortBySimilarity(SubSeq(arr, 1, Len(arr) - 1)),
                          arr[Len(arr)])

detectConflicts(newInvariant, existingFossils, index) ==
  SortBySimilarity(ConflictEntries(newInvariant, tokenize(newInvariant),
                                   HasNegation(newInvariant),
                                   existingFossils, index))

\* ----------------------------------------------------------- layoutGraph
Padding == 40

\* Math.min / Math.max over the numbers of a non-empty array
MinOf(xs) == CHOOSE m \in SeqToSet(xs) : \A x \in SeqToSet(xs) : m <= x
MaxOf(xs) == CHOOSE m \in SeqToSet(xs) : \A x \in SeqToSet(xs) : m >= x
FracMin(p, q) == IF FracLe(p, q) THEN p ELSE q

\* (max - min) > 0 ? (size - padding * 2) / (max - min) : 1
AxisScale(size, lo, hi) ==
  IF hi - lo > 0 THEN <<size - Padding * 2, hi - lo>> ELSE One

\* Math.min(scaleX, scaleY, 1), as a fraction with a positive denominator
LayoutScale(xs, ys, width, height) ==
  FracMin(FracMin(AxisScale(width, MinOf(xs), MaxOf(xs)),
                  AxisScale(height, MinOf(ys), MaxOf(ys))),
          One)

\* padding + (v - min) * scale
Normalized(v, lo, scale) == <<Padding * scale[2] + (v - lo) * scale[1], scale[2]>>

\* layoutGraph, given the positions `settled' that the force loop leaves:
\* settled[i] = <<x, y>> of nodes[i] after the last iteration
layoutGraph(nodes, settled, width, height) ==
  IF Len(nodes) = 0 THEN nodes
  ELSE LET xs == [i \in 1..Len(nodes) |-> settled[i][1]]
           ys == [i \in 1..Len(nodes) |-> settled[i][2]]
           scale == LayoutScale(xs, ys, width, height)
       IN  [i \in 1..Len(nodes) |->
              [id |-> nodes[i].id,
               x |-> Normalized(xs[i], MinOf(xs), scale),
               y |-> Normalized(ys[i], MinOf(ys), scale)]]

\* .slice(0, n)
SliceTo(arr, n) == SubSeq(arr, 1, IF Len(arr) < n THEN Len(arr) ELSE n)

\* ---------------------------------------------------- resurface selection
\* Times are whole hours since the epoch (Null for a missing date); a
\* dayKey is a day number.  Scores are integers counting 1/SCORE_UNIT, a
\* unit in which every constant of the scoring code is whole.
SCORE_UNIT == 80000
HOURS_PER_DAY == 24
MIN_AGE_DAYS == 7
SENTINEL == -999 * SCORE_UNIT
SENTINEL_CUTOFF == -900 * SCORE_UNIT
TOP_N == 5

\* Math.log(hours / 24 + 1), in thousandths, for the durations in use
LogTable ==
  <<<<0, 0>>, <<1, 41>>, <<23, 672>>, <<24, 693>>, <<25, 714>>, <<48, 1099>>,
    <<49, 1112>>, <<72, 1386>>, <<73, 1397>>, <<96, 1609>>, <<167, 2074>>, <<168, 2079>>, <<191, 2193>>, <<192, 2197>>,
    <<216, 2303>>, <<240, 2398>>, <<264, 2485>>, <<336, 2708>>, <<480, 3045>>, <<720, 3434>>, <<1200, 3932>>,
    <<2400, 4615>>>>
LogOfDaysPlusOne(hours) ==
  LogTable[CHOOSE k \in 1..Len(LogTable) : LogTable[k][1] = hours][2]

Min2(a, b) == IF a < b THEN a ELSE b
Abs(a) == IF a < 0 THEN -a ELSE a

\* allFossils.some(f => f.reentryOf === fossil.id && !f.deleted)
HasChildren(fossil, allFossils) ==
  \E k \in 1..Len(allFossils) :
    allFossils[k].reentryOf = fossil.id /\ ~allFossils[k].deleted

\* fossil.lastRevisitedAt ? ... : createdAt
LastRevisit(fossil) ==
  IF fossil.lastRevisitedAt # Null THEN fossil.lastRevisitedAt ELSE fossil.createdAt

\* daysSinceCreation < 7
TooYoungSixDays(fossil, t) ==
  t - fossil.createdAt < (MIN_AGE_DAYS - 1) * HOURS_PER_DAY

TooYoung(fossil, t) == t - fossil.createdAt < MIN_AGE_DAYS * HOURS_PER_DAY

\* ((fossil.quality || 2) - 2) * 0.2
QualityBonusFlat(fossil) == 0

QualityBonus(fossil) ==
  ((IF fossil.quality # 0 THEN fossil.quality ELSE 2) - 2) * 16000

\* Math.min((fossil.reuseCount || 0) * 0.1, 0.5)
ReuseBonusUncapped(fossil) == fossil.reuseCount * 8000

ReuseBonus(fossil) == Min2(fossil.reuseCount * 8000, 40000)

calculateDecayScore(fossil, allFossils, t) ==
  IF TooYoung(fossil, t) THEN SENTINEL
  ELSE LET ageFactor == LogOfDaysPlusOne(t - fossil.createdAt) * 8
           isolationFactor == IF HasChildren(fossil, allFossils) THEN 0 ELSE 24000
           revisitFactor == LogOfDaysPlusOne(t - LastRevisit(fossil)) * 10
           qualityBonus == QualityBonus(fossil)
           reuseBonus == ReuseBonus(fossil)
           reinforceBonus == fossil.reinforceCount * 12000
       IN  ageFactor + isolationFactor + revisitFactor
             - qualityBonus - reuseBonus - reinforceBonus

\* new Date(...).getHours(), the local time zone taken to be UTC
getHours(t) == t % HOURS_PER_DAY

calculateEngagementScore(fossil, t) ==
    (IF fossil.reinforceCount > 0 THEN fossil.reinforceCount * 24000 ELSE 0)
  + (IF fossil.reuseCount > 0 THEN fossil.reuseCount * 16000 ELSE 0)
  + (IF fossil.quality >= 4 THEN 16000 ELSE 0)
  - (IF fossil.dismissCount > 2 THEN 24000 ELSE 0)
  - (IF fossil.skipCount > 3 THEN 16000 ELSE 0)
  + (IF fossil.lastRevisitedAt # Null
        /\ Abs(getHours(t) - getHours(fossil.lastRevisitedAt)) <= 2
     THEN 8000 ELSE 0)

\* the filter both selectors start with
IsEligibleNoSuperseded(f, todayKey, t) ==
  /\ ~f.deleted
  /\ f.dayKey # todayKey
  /\ (f.dismissedUntil = Null \/ f.dismissedUntil <= t)

IsEligible(f, todayKey, t) ==
  /\ ~f.deleted
  /\ f.dayKey # todayKey
  /\ (f.dismissedUntil = Null \/ f.dismissedUntil <= t)
  /\ f.supersededBy = Null

\* scored.sort((a, b) => b.score - a.score), which is stable: of two
\* entries with equal scores the earlier one stays first
RECURSIVE InsertByScore(_, _)
InsertByScore(sorted, x) ==
  IF sorted = <<>> THEN <<x>>
  ELSE IF Head(sorted).score >= x.score
       THEN <<Head(sorted)>> \o InsertByScore(Tail(sorted), x)
       ELSE <<x>> \o sorted
RECURSIVE SortByScore(_, _)
SortByScore(arr, n) ==
  IF n = 0 THEN <<>> ELSE InsertByScore(SortByScore(arr, n - 1), arr[n])

\* scored.sort((a, b) => b.totalScore - a.totalScore), stable as well
RECURSIVE InsertByTotalScore(_, _)
InsertByTotalScore(sorted, x) ==
  IF sorted = <<>> THEN <<x>>
  ELSE IF FracLe(x.totalScore, Head(sorted).totalScore)
       THEN <<Head(sorted)>> \o InsertByTotalScore(Tail(sorted), x)
       ELSE <<x>> \o sorted
RECURSIVE SortByTotalScore(_, _)
SortByTotalScore(arr, n) ==
  IF n = 0 THEN <<>>
  ELSE InsertByTotalScore(SortByTotalScore(arr, n - 1), arr[n])

\* The weighted draw.  Every weight Math.exp(score) is positive, so the
\* draw can stop at any entry of top5; `draw' is the position at which
\* `random <= 0' first holds, a position past the end meaning that the loop
\* ran out, in which case top5[0] is returned.
WeightedPickNoFallback(top5, draw) ==
  IF draw \in 1..Len(top5) THEN top5[draw].fossil ELSE JsNull

WeightedPick(top5, draw) ==
  IF draw \in 1..Len(top5) THEN top5[draw].fossil ELSE top5[1].fossil

\* eligible.map(f => ({fossil, score})).filter(s => s.score > -900)
RECURSIVE ScoredFrom(_, _, _, _)
ScoredFrom(eligible, allFossils, t, k) ==
  IF k > Len(eligible) THEN <<>>
  ELSE LET score == calculateDecayScore(eligible[k], allFossils, t)
       IN  (IF score > SENTINEL_CUTOFF
            THEN <<[fossil |-> eligible[k], score |-> score]>> ELSE <<>>)
           \o ScoredFrom(eligible, allFossils, t, k + 1)

PickFromScored(scored, draw) ==
  IF Len(scored) = 0 THEN JsNull
  ELSE WeightedPick(SliceTo(SortByScore(scored, Len(scored)), TOP_N), draw)

selectResurfaceFossil(allFossils, todayKey, t, draw) ==
  LET eligible == SelectSeq(allFossils, LAMBDA f : IsEligible(f, todayKey, t))
  IN  IF Len(eligible) = 0 THEN JsNull
      ELSE PickFromScored(ScoredFrom(eligible, allFossils, t, 1), draw)

\* similarity * 2, zero without a context
ContextScore(f, index, contextTokens) ==
  IF contextTokens = JsNull THEN Zero
  ELSE LET similarity == getJaccard(contextTokens, TokensFor(index, f))
       IN  <<2 * similarity[1], similarity[2]>>

\* decayScore + contextScore + engagementScore, as a fraction of score units
TotalScore(decayScore, contextScore, engagementScore) ==
  <<(decayScore + engagementScore) * contextScore[2]
      + contextScore[1] * SCORE_UNIT,
    contextScore[2]>>

ContextualEntry(f, decayScore, contextScore, engagementScore) ==
  [fossil |-> f, decayScore |-> decayScore, contextScore |-> contextScore,
   engagementScore |-> engagementScore,
   totalScore |-> TotalScore(decayScore, contextScore, engagementScore)]

\* the map / filter / map / map chain building the scored candidates
RECURSIVE ContextualScoredFrom(_, _, _, _, _, _)
ContextualScoredFrom(eligible, allFossils, index, contextTokens, t, k) ==
  IF k > Len(eligible) THEN <<>>
  ELSE LET decayScore == calculateDecayScore(eligible[k], allFossils, t)
       IN  (IF decayScore > SENTINEL_CUTOFF
            THEN <<ContextualEntry(eligible[k], decayScore,
                                   ContextScore(eligible[k], index, contextTokens),
                                   calculateEngagementScore(eligible[k], t))>>
            ELSE <<>>)
           \o ContextualScoredFrom(eligible, allFossils, index, contextTokens,
                                   t, k + 1)

PickFromContextualUnsliced(scored, draw) ==
  IF Len(scored) = 0 THEN JsNull
  ELSE WeightedPick(SortByTotalScore(scored, Len(scored)), draw)

PickFromContextual(scored, draw) ==
  IF Len(scored) = 0 THEN JsNull
  ELSE WeightedPick(SliceTo(SortByTotalScore(scored, Len(scored)), TOP_N),
                    draw)

\* if (currentContext) tokenize(currentContext): JsNull when it is falsy
ContextTokens(currentContext) ==
  IF currentContext.t # "string" \/ currentContext.v = <<>> THEN JsNull
  ELSE tokenize(currentContext.v)

selectContextualResurface(allFossils, index, currentContext, todayKey, t, draw) ==
  LET eligible == SelectSeq(allFossils, LAMBDA f : IsEligible(f, todayKey, t))
  IN  IF Len(eligible) = 0 THEN JsNull
      ELSE PickFromContextual(
             ContextualScoredFrom(eligible, allFossils, index,
                                  ContextTokens(currentContext), t, 1),
             draw)

\* ---------------------------------------- detectClusters, suggestConnections
\* fossils.filter(f => !f.deleted && !f.supersededBy)
validOfKeepSuperseded(fs) == SelectSeq(fs, LAMBDA f : ~f.deleted)
validOf(fs) == SelectSeq(fs, LAMBDA f : ~f.deleted /\ f.supersededBy = Null)

\* the inner loop of detectClusters: the neighbours of validFossils[i]
RECURSIVE NeighborsFrom(_, _, _, _, _)
NeighborsFrom(valid, index, i, j, minSimilarity) ==
  IF j > Len(valid) THEN <<>>
  ELSE LET similarity == getJaccard(TokensFor(index, valid[i]),
                                    TokensFor(index, valid[j]))
       IN  (IF i # j /\ AtLeastPct(similarity, minSimilarity)
            THEN <<[id |-> valid[j].id, similarity |-> similarity]>> ELSE <<>>)
           \o NeighborsFrom(valid, index, i, j + 1, minSimilarity)

\* adjacency: Map id -> neighbours
ClusterAdjacency(valid, index, minSimilarity) ==
  [id \in {valid[i].id : i \in 1..Len(valid)} |->
     NeighborsFrom(valid, index,
                   CHOOSE i \in 1..Len(valid) : valid[i].id = id, 1,
                   minSimilarity)]

\* the neighbours pushed on the queue: those not visited yet
RECURSIVE UnvisitedIds(_, _)
UnvisitedIds(neighbors, visited) ==
  IF neighbors = <<>> THEN <<>>
  ELSE (IF Head(neighbors).id \in visited THEN <<>> ELSE <<Head(neighbors).id>>)
       \o UnvisitedIds(Tail(neighbors), visited)

\* the while loop over the queue; yields the cluster and the visited set
RECURSIVE Bfs(_, _, _, _)
Bfs(queue, visited, cluster, adjacency) ==
  IF queue = <<>> THEN [visited |-> visited, cluster |-> cluster]
  ELSE LET current == Head(queue)
       IN  IF current \in visited
           THEN Bfs(Tail(queue), visited, cluster, adjacency)
           ELSE Bfs(Tail(queue)
                      \o UnvisitedIds(adjacency[current], visited \cup {current}),
                    visited \cup {current}, Append(cluster, current), adjacency)

\* cluster.map(id => validFossils.find(f => f.id === id))
RECURSIVE ClusterFossils(_, _)
ClusterFossils(cluster, valid) ==
  IF cluster = <<>> THEN <<>>
  ELSE <<valid[CHOOSE i \in 1..Len(valid) :
                 valid[i].id = Head(cluster)
                 /\ \A j \in 1..(i - 1) : valid[j].id # Head(cluster)]>>
       \o ClusterFossils(Tail(cluster), valid)

\* the loop over validFossils collecting the clusters that are large enough
\* (the `theme' field of a cluster is left out)
RECURSIVE ClustersOf(_, _, _, _, _)
ClustersOf(valid, k, visited, adjacency, minClusterSize) ==
  IF k > Len(valid) THEN <<>>
  ELSE IF valid[k].id \in visited
       THEN ClustersOf(valid, k + 1, visited, adjacency, minClusterSize)
       ELSE LET found == Bfs(<<valid[k].id>>, visited, <<>>, adjacency)
            IN  (IF Len(found.cluster) >= minClusterSize
                 THEN <<[ids |-> found.cluster, size |-> Len(found.cluster),
                         fossils |-> ClusterFossils(found.cluster, valid)]>>
                 ELSE <<>>)
                \o ClustersOf(valid, k + 1, found.visited, adjacency,
                              minClusterSize)

\* clusters.sort((a, b) => b.size - a.size), stable
RECURSIVE InsertBySize(_, _)
InsertBySize(sorted, x) ==
  IF sorted = <<>> THEN <<x>>
  ELSE IF Head(sorted).size >= x.size
       THEN <<Head(sorted)>> \o InsertBySize(Tail(sorted), x)
       ELSE <<x>> \o sorted
RECURSIVE SortBySize(_, _)
SortBySize(arr, n) ==
  IF n = 0 THEN <<>> ELSE InsertBySize(SortBySize(arr, n - 1), arr[n])

ClustersOfValid(valid, index, options) ==
  IF Len(valid) < options.minClusterSize THEN <<>>
  ELSE LET clusters == ClustersOf(valid, 1, {},
                                  ClusterAdjacency(valid, index,
                                                   options.minSimilarity),
                                  options.minClusterSize)
       IN  SortBySize(clusters, Len(clusters))

detectClusters(fs, index, options) == ClustersOfValid(validOf(fs), index, options)

\* getSharedConcepts: the tokens of setA that setB has and that are longer
\* than 3 characters.  The array is kept as a set: slice(0, 5) caps its length,
\* which the order of the tokens does not change.
SharedLongTokens(setA, setB) == {token \in setA.v : token \in setB.v /\ Len(token) > 3}
getSharedConceptsLength(setA, setB) == Min2(Cardinality(SharedLongTokens(setA, setB)), 5)

\* `${e.source}-${e.target}`
PairKey(source, target) == ToString(source) \o "-" \o ToString(target)

\* new Set(existingEdges.map(e => `${e.source}-${e.target}`))
existingPairsOf(existingEdges) ==
  {PairKey(existingEdges[k].source, existingEdges[k].target) : k \in 1..Len(existingEdges)}

\* similarity >= 0.25 && similarity < 0.7
SUGGEST_MIN == 25
SUGGEST_MAX == 70
MAX_SUGGESTIONS == 10
MIN_SHARED == 2
InSuggestBand(similarity) ==
  AtLeastPct(similarity, SUGGEST_MIN) /\ BelowPct(similarity, SUGGEST_MAX)

\* fossilA.reentryOf === fossilB.id || fossilB.reentryOf === fossilA.id
ReentryLinked(fossilA, fossilB) ==
  fossilA.reentryOf = fossilB.id \/ fossilB.reentryOf = fossilA.id

\* existingPairs.has(pairKey1) || existingPairs.has(pairKey2)
HasManualEdgeOneWay(existingPairs, fossilA, fossilB) ==
  PairKey(fossilA.id, fossilB.id) \in existingPairs
HasManualEdge(existingPairs, fossilA, fossilB) ==
  \/ PairKey(fossilA.id, fossilB.id) \in existingPairs
  \/ PairKey(fossilB.id, fossilA.id) \in existingPairs

\* body of the inner loop: the suggestion pushed for one pair, if any
SuggestionFor(fossilA, fossilB, index, existingPairs) ==
  IF ReentryLinked(fossilA, fossilB) THEN <<>>
  ELSE IF HasManualEdge(existingPairs, fossilA, fossilB) THEN <<>>
  ELSE LET tokensA == TokensFor(index, fossilA)
           tokensB == TokensFor(index, fossilB)
           similarity == getJaccard(tokensA, tokensB)
       IN  IF InSuggestBand(similarity)
              /\ getSharedConceptsLength(tokensA, tokensB) >= MIN_SHARED
           THEN <<[sourceId |-> fossilA.id, targetId |-> fossilB.id,
                   similarity |-> RoundPct(similarity),
                   sharedConcepts |-> SharedLongTokens(tokensA, tokensB)]>>
           ELSE <<>>

\* the two nested loops, i < j
RECURSIVE SuggestionsFrom(_, _, _, _, _)
SuggestionsFrom(valid, i, j, index, existingPairs) ==
  IF i > Len(valid) THEN <<>>
  ELSE IF j > Len(valid)
       THEN SuggestionsFrom(valid, i + 1, i + 2, index, existingPairs)
       ELSE SuggestionFor(valid[i], valid[j], index, existingPairs)
            \o SuggestionsFrom(valid, i, j + 1, index, existingPairs)

suggestConnections(fs, index, existingEdges) ==
  SliceTo(SortBySimilarity(SuggestionsFrom(validOf(fs), 1, 2, index,
                                           existingPairsOf(existingEdges))),
          MAX_SUGGESTIONS)

\* ------------------------------------------------------- findBridgeFossils
BRIDGE_CLUSTER_SIZE == 2
BRIDGE_CLUSTER_SIMILARITY == 25
BRIDGE_MIN_SIMILARITY == 15
BRIDGE_MIN_CLUSTERS == 2
MAX_BRIDGES == 5

FracAdd(p, q) == <<p[1] * q[2] + q[1] * p[2], p[2] * q[2]>>
FracMax(p, q) == IF FracLe(p, q) THEN q ELSE p

\* the loop over cluster.fossils: Math.max of the similarities to the
\* cluster's members other than the record itself
RECURSIVE MaxSimTo(_, _, _, _)
MaxSimTo(fossil, clusterFossils, index, maxSim) ==
  IF clusterFossils = <<>> THEN maxSim
  ELSE MaxSimTo(fossil, Tail(clusterFossils), index,
                IF Head(clusterFossils).id = fossil.id THEN maxSim
                ELSE FracMax(maxSim,
                             getJaccard(TokensFor(index, fossil),
                                        TokensFor(index, Head(clusterFossils)))))

\* the loop over the clusters collecting clusterConnections (0-based index)
RECURSIVE ConnectionsFromAnySimilarity(_, _, _, _)
ConnectionsFromAnySimilarity(fossil, clusters, i, index) ==
  IF i > Len(clusters) THEN <<>>
  ELSE <<[cluster |-> i - 1,
          similarity |-> MaxSimTo(fossil, clusters[i].fossils, index, Zero)]>>
       \o ConnectionsFromAnySimilarity(fossil, clusters, i + 1, index)
RECURSIVE ConnectionsFrom(_, _, _, _)
ConnectionsFrom(fossil, clusters, i, index) ==
  IF i > Len(clusters) THEN <<>>
  ELSE LET maxSim == MaxSimTo(fossil, clusters[i].fossils, index, Zero)
       IN  (IF AtLeastPct(maxSim, BRIDGE_MIN_SIMILARITY)
            THEN <<[cluster |-> i - 1, similarity |-> maxSim]>> ELSE <<>>)
           \o ConnectionsFrom(fossil, clusters, i + 1, index)

ClusterConnectionsLoose(fossil, clusters, index) ==
  ConnectionsFromAnySimilarity(fossil, clusters, 1, index)
ClusterConnections(fossil, clusters, index) ==
  ConnectionsFrom(fossil, clusters, 1, index)

\* clusterConnections.reduce((sum, c) => sum + c.similarity, 0)
RECURSIVE SumSimilarity(_)
SumSimilarity(connections) ==
  IF connections = <<>> THEN Zero
  ELSE FracAdd(Head(connections).similarity, SumSimilarity(Tail(connections)))

\* sum / clusterConnections.length
BridgeStrength(connections) ==
  LET sum == SumSimilarity(connections)
  IN  <<sum[1], sum[2] * Len(connections)>>

\* body of the loop over validFossils: the bridge pushed for one record
BridgeFor(fossil, clusters, index) ==
  LET clusterConnections == ClusterConnections(fossil, clusters, index)
  IN  IF Len(clusterConnections) >= BRIDGE_MIN_CLUSTERS
      THEN <<[fossil |-> fossil, connections |-> clusterConnections,
              bridgeStrength |-> BridgeStrength(clusterConnections)]>>
      ELSE <<>>

RECURSIVE BridgesFrom(_, _, _)
BridgesFrom(valid, clusters, index) ==
  IF valid = <<>> THEN <<>>
  ELSE BridgeFor(Head(valid), clusters, index)
       \o BridgesFrom(Tail(valid), clusters, index)

\* bridges.sort((a, b) => b.bridgeStrength - a.bridgeStrength), stable
RECURSIVE InsertByStrength(_, _)
InsertByStrength(sorted, x) ==
  IF sorted = <<>> THEN <<x>>
  ELSE IF FracLe(x.bridgeStrength, Head(sorted).bridgeStrength)
       THEN <<Head(sorted)>> \o InsertByStrength(Tail(sorted), x)
       ELSE <<x>> \o sorted
RECURSIVE SortByStrength(_, _)
SortByStrength(arr, n) ==
  IF n = 0 THEN <<>> ELSE InsertByStrength(SortByStrength(arr, n - 1), arr[n])

findBridgeFossils(fs, index) ==
  LET clusters == detectClusters(fs, index,
                                 [minClusterSize |-> BRIDGE_CLUSTER_SIZE,
                                  minSimilarity |-> BRIDGE_CLUSTER_SIMILARITY])
  IN  IF Len(clusters) < BRIDGE_MIN_CLUSTERS THEN <<>>
      ELSE LET bridges == BridgesFrom(validOf(fs), clusters, index)
           IN  SliceTo(SortByStrength(bridges, Len(bridges)), MAX_BRIDGES)

\* --------------------------------------------------------- calculateStreak
\* Instants are hours since the epoch (UTC); a dayKey is the number of its
\* UTC day, which orders as the 'YYYY-MM-DD' strings do.
\* getDayKey(d): d.toISOString().split('T')[0]
getDayKey(instant) == instant \div HOURS_PER_DAY
\* new Date(dayKey): midnight UTC of that day
DateOfDayKey(dayKey) == dayKey * HOURS_PER_DAY

\* d.setDate(d.getDate() - 1): the same local wall-clock time on the previous
\* local date.  `shift' is the change of the local UTC offset the time zone
\* makes between the two dates of the at-th step back from now (0 hours
\* where there is none), so that step is 24 + shift.by hours long.
NoShift == [at |-> 0, by |-> 0]
SetDateMinusOne(instant, k, shift) ==
  instant - (HOURS_PER_DAY + (IF shift.at = k THEN shift.by ELSE 0))

\* [...new Set(validFossils.map(f => f.dayKey))]
DayKeysOf(valid) == {valid[i].dayKey : i \in 1..Len(valid)}

\* .sort().reverse().slice().reverse(): the keys in ascending order
RECURSIVE AscendingKeys(_)
AscendingKeys(keys) ==
  IF keys = {} THEN <<>>
  ELSE LET least == CHOOSE k \in keys : \A other \in keys : k <= other
       IN  <<least>> \o AscendingKeys(keys \ {least})

\* the while (true) loop: k is the number of the next step back
RECURSIVE CountBack(_, _, _, _, _)
CountBack(checkDate, k, dayKeys, shift, currentStreak) ==
  IF getDayKey(checkDate) \in dayKeys
  THEN CountBack(SetDateMinusOne(checkDate, k, shift), k + 1, dayKeys, shift,
                 currentStreak + 1)
  ELSE currentStreak

CurrentStreak(dayKeys, t, shift) ==
  LET today == getDayKey(t)
      yesterday == SetDateMinusOne(t, 1, shift)
      hasToday == today \in dayKeys
      hasYesterday == getDayKey(yesterday) \in dayKeys
  IN  IF hasToday \/ hasYesterday
      THEN IF hasToday THEN CountBack(t, 1, dayKeys, shift, 0)
           ELSE CountBack(yesterday, 2, dayKeys, shift, 0)
      ELSE 0

Max2(a, b) == IF a < b THEN b ELSE a

\* the for loop over the ascending keys; prevDate is Null before the first
RECURSIVE LongestLoop(_, _, _)
LongestLoop(keys, i, st) ==
  IF i > Len(keys) THEN st
  ELSE LET date == DateOfDayKey(keys[i])
           diff == (date - st.prevDate) \div HOURS_PER_DAY
       IN  LongestLoop(keys, i + 1,
             IF i = 1
             THEN [st EXCEPT !.tempStreak = 1, !.prevDate = date]
             ELSE IF diff = 1
             THEN [st EXCEPT !.tempStreak = st.tempStreak + 1, !.prevDate = date]
             ELSE [prevDate |-> date,
                   tempStreak |-> 1,
                   longestStreak |-> Max2(st.longestStreak, st.tempStreak),
                   gaps |-> IF diff > 1
                            THEN Append(st.gaps, [from |-> getDayKey(st.prevDate),
                                                  to |-> keys[i],
                                                  days |-> diff - 1])
                            ELSE st.gaps])

MAX_GAPS == 5

calculateStreak(fs, t, shift) ==
  LET validFossils == visibleOf(fs)
  IN  IF Len(validFossils) = 0
      THEN [current |-> 0, longest |-> 0, total |-> 0, gaps |-> <<>>]
      ELSE LET dayKeys == DayKeysOf(validFossils)
               st == LongestLoop(AscendingKeys(dayKeys), 1,
                                 [prevDate |-> Null, tempStreak |-> 0,
                                  longestStreak |-> 0, gaps |-> <<>>])
           IN  [current |-> CurrentStreak(dayKeys, t, shift),
                longest |-> Max2(st.longestStreak, st.tempStreak),
                total |-> Len(validFossils),
                gaps |-> SliceTo(st.gaps, MAX_GAPS)]

\* ------------------------------------- getNextDismissDate, dismiss handler
DISMISS_INTERVALS == <<1, 2, 3, 5, 8, 13, 21, 34>>

\* date.setDate(date.getDate() + days): the same local wall-clock time `days'
\* local dates later.  `shift' is the change of the local UTC offset the time
\* zone makes on the at-th of the coming local days (0 hours where there is
\* none): the instant moves on by days * 24 hours plus that change when the
\* change lies within the days stepped over.
SetDatePlus(instant, days, shift) ==
  instant + days * HOURS_PER_DAY
    + (IF shift.at \in 1..days THEN shift.by ELSE 0)

\* getNextDismissDate(dismissCount): the 'YYYY-MM-DD' of the stepped date,
\* as a day number
getNextDismissDate(dismissCount, t, shift) ==
  getDayKey(SetDatePlus(t,
                        DISMISS_INTERVALS[Min2(dismissCount,
                                               Len(DISMISS_INTERVALS) - 1) + 1],
                        shift))

\* prev.fossils.map(f => f.id === resurfaceFossil.id ? {...} : f).  The
\* record field dismissedUntil holds the date string; the model holds the
\* instant new Date(dismissedUntil) gives for it, which is what the
\* selectors compare with the clock.
DismissIn(fs, resurfaceFossil, nextDate) ==
  [i \in 1..Len(fs) |->
     IF fs[i].id = resurfaceFossil.id
     THEN [fs[i] EXCEPT !.dismissedUntil = DateOfDayKey(nextDate),
                        !.dismissCount = fs[i].dismissCount + 1]
     ELSE fs[i]]

\* ------------------------------------------- the handlers of the application
\* supersededBy: 'pending', the string handleConflictSupersede stores: a
\* value that is neither null nor the id of any record
PENDING == -1

\* generateId(): an id no record of the collection has
NewId(fs) == Len(fs) + 1

\* the record sealFossil and the quick capture form build
NewFossil(id, t, reentryOf, quality) ==
  [createFossil(id) EXCEPT !.dayKey = getDayKey(t),
                           !.createdAt = t,
                           !.reentryOf = reentryOf,
                           !.quality = quality]

\* visibleFossils.find(f => f.dayKey === todayKey), as a condition
HasTodayFossil(fs, t) ==
  \E i \in 1..Len(fs) : ~fs[i].deleted /\ fs[i].dayKey = getDayKey(t)

\* [newFossil, ...prev.fossils].map(f => f.id === newFossil.reentryOf ? ...)
SealIn(fs, newFossil) ==
  LET all == <<newFossil>> \o fs
  IN  [i \in 1..Len(all) |->
         IF all[i].id = newFossil.reentryOf
         THEN [all[i] EXCEPT !.reuseCount = all[i].reuseCount + 1]
         ELSE all[i]]

\* fossils: [fossil, ...prev.fossils]
QuickCaptureIn(fs, fossil) == <<fossil>> \o fs

\* prev.fossils.map(f => f.id === id ? { ...f, deleted: true } : f)
DeleteIn(fs, id) ==
  [i \in 1..Len(fs) |->
     IF fs[i].id = id THEN [fs[i] EXCEPT !.deleted = TRUE] ELSE fs[i]]

\* handleResurfaceReinforce's map
ReinforceIn(fs, resurfaceFossil, t) ==
  [i \in 1..Len(fs) |->
     IF fs[i].id = resurfaceFossil.id
     THEN [fs[i] EXCEPT !.reinforceCount = fs[i].reinforceCount + 1,
                        !.lastRevisitedAt = t]
     ELSE fs[i]]

\* handleConflictSupersede's map
SupersedePendingIn(fs, conflictFossilId) ==
  [i \in 1..Len(fs) |->
     IF fs[i].id = conflictFossilId
     THEN [fs[i] EXCEPT !.supersededBy = PENDING]
     ELSE fs[i]]

\* handleMergeFossils: the merged record, a re-entry of the newest target
RECURSIVE SumReuse(_, _)
SumReuse(fs, k) ==
  IF k > Len(fs) THEN 0 ELSE fs[k].reuseCount + SumReuse(fs, k + 1)

RECURSIVE MaxQuality(_, _)
MaxQuality(fs, k) ==
  IF k > Len(fs) THEN 0
  ELSE LET q == IF fs[k].quality # 0 THEN fs[k].quality ELSE 2
           rest == MaxQuality(fs, k + 1)
       IN  IF q > rest THEN q ELSE rest

MergedFossil(id, t, fossilsToMerge, newest) ==
  [createFossil(id) EXCEPT !.dayKey = getDayKey(t),
                           !.createdAt = t,
                           !.quality = MaxQuality(fossilsToMerge, 1),
                           !.reentryOf = newest,
                           !.reuseCount = SumReuse(fossilsToMerge, 1)]

\* [merged, ...prev.fossils.map(f => mergeTargets.includes(f.id) ? ...)]
MergeIn(fs, merged, mergeTargets) ==
  <<merged>> \o
  [i \in 1..Len(fs) |->
     IF fs[i].id \in mergeTargets
     THEN [fs[i] EXCEPT !.supersededBy = merged.id]
     ELSE fs[i]]

\* ------------------------------------------------- idle parts of the state
NoArg == [none |-> TRUE]
IdleWalk ==
  /\ pc = "idle" /\ root = Null /\ chainIds = {} /\ stack = <<>>
  /\ cur = Null /\ seen = {} /\ trail = <<>>
WalkVars == <<pc, root, chainIds, stack, cur, seen, trail>>
\* the tokenizer closure as the module is loaded: an empty Map, no Set yet
FreshTokenizer == cache = <<>> /\ heap = <<>> /\ calls = <<>>
TokenizerVars == <<cache, heap, calls>>
InputVars == <<fossils, tokenIndex, arg, now>>

\* ========================================================= SpecJaccard
JsValues == {JsNull, JsUndefined} \cup {JsSet(S) : S \in SUBSET (1..MaxTok)}

InitJaccard ==
  /\ fossils = <<>> /\ tokenIndex = <<>> /\ now = 0
  /\ arg \in [a : JsValues, b : JsValues]
  /\ op = "none" /\ res = Zero
  /\ IdleWalk
  /\ FreshTokenizer

CallGetJaccard ==
  /\ op = "none"
  /\ op' = "getJaccard"
  /\ res' = getJaccard(arg.a, arg.b)
  /\ UNCHANGED <<InputVars, TokenizerVars, WalkVars>>

NextJaccard == CallGetJaccard
SpecJaccard == InitJaccard /\ [][NextJaccard]_vars

\* C10: getJaccard(A, B) is |A \cap B| / |A \cup B| for non-empty sets A and
\* B (so it lies in [0,1], is 1 for A = B, is symmetric, and is exactly 1/2
\* for {a,b,c} and {b,c,d}); it is 0 when either argument is empty, null or
\* undefined.
JaccardIsIntersectionOverUnion ==
  op = "getJaccard" =>
    /\ (HasSize(arg.a) /\ HasSize(arg.b)) =>
          /\ res = <<Cardinality(arg.a.v \cap arg.b.v),
                     Cardinality(arg.a.v \cup arg.b.v)>>
          /\ res[1] >= 0 /\ res[1] <= res[2]
          /\ (arg.a = arg.b => FracEq(res, One))
          /\ FracEq(res, getJaccard(arg.b, arg.a))
          /\ (arg.a.v = {1, 2, 3} /\ arg.b.v = {2, 3, 4} => FracEq(res, <<1, 2>>))
    /\ (~HasSize(arg.a) \/ ~HasSize(arg.b)) => res = Zero

JaccardHalfReached ==
  /\ op = "getJaccard"
  /\ arg.a = JsSet({1, 2, 3}) /\ arg.b = JsSet({2, 3, 4})
  /\ FracEq(res, <<1, 2>>)

\* =========================================================== SpecGraph
\* token sets of the graph inputs: similarities 1, 3/10, 2/8 and 0
GraphTokenSets == <<JsSet(1..6), JsSet(4..10), JsSet({9, 10, 11})>>

Kinds == {"live", "deleted", "superseded", "deletedSuperseded"}
IsDeletedKind(k) == k \in {"deleted", "deletedSuperseded"}
IsSupersededKind(k) == k \in {"superseded", "deletedSuperseded"}

\* Record lists 1..n with ids 1..n.  One record of the list may be deleted,
\* superseded or both (a superseded record names the next id as its
\* replacement); two records may carry a reentryOf, which is any id of the
\* list (the record's own included) or the absent id n+1: this gives null,
\* dangling, self-referential, mutual and chained links and links to a
\* deleted record.
KindChoices(n) ==
  {ks \in [1..n -> Kinds] : \A i, j \in 1..n : (ks[i] # "live" /\ ks[j] # "live") => i = j}
LinkChoices(n) ==
  {[i \in 1..n |-> IF i = c[1] THEN t[1] ELSE IF i = c[2] THEN t[2] ELSE Null] :
     c \in {d \in (0..n) \X (0..n) : d[1] = 0 \/ d[1] < d[2]},
     t \in (1..(n + 1)) \X (1..(n + 1))}
TokenChoices(n, ks) ==
  {ts \in [1..n -> 1..Len(GraphTokenSets)] :
     \A i \in 1..n : IsDeletedKind(ks[i]) => ts[i] = 1}

InitGraph ==
  /\ \E n \in 0..MaxFossils :
       \E ks \in KindChoices(n) :
         \E ls \in LinkChoices(n) :
           \E ts \in TokenChoices(n, ks) :
             /\ fossils = [i \in 1..n |->
                  [createFossil(i) EXCEPT
                     !.deleted = IsDeletedKind(ks[i]),
                     !.supersededBy = IF IsSupersededKind(ks[i]) THEN i + 1 ELSE Null,
                     !.reentryOf = ls[i]]]
             \* the index the application builds: the non-deleted records
             /\ tokenIndex = [i \in {k \in 1..n : ~IsDeletedKind(ks[k])} |->
                                GraphTokenSets[ts[i]]]
  /\ arg = NoArg /\ now = 0
  /\ op = "none" /\ res = Zero
  /\ IdleWalk
  /\ FreshTokenizer

CallBuildGraphData ==
  /\ op = "none"
  /\ op' = "buildGraphData"
  /\ res' = buildGraphData(fossils, tokenIndex)
  /\ UNCHANGED <<InputVars, TokenizerVars, WalkVars>>

NextGraph == CallBuildGraphData
SpecGraph == InitGraph /\ [][NextGraph]_vars

\* -- vocabulary of the graph claims
Built == op = "buildGraphData"
NodeIdx == 1..Len(res.nodes)
EdgeIdx == 1..Len(res.edges)
NodeIds == {res.nodes[i].id : i \in NodeIdx}
FossilIdx == 1..Len(fossils)
IsLive(f) == ~f.deleted /\ f.supersededBy = Null
\* |A n B| / |A u B| of the indexed token sets of two records, 0 if one is empty
SimOf(idA, idB) ==
  LET a == IndexGet(tokenIndex, idA)
      b == IndexGet(tokenIndex, idB)
  IN  IF HasSize(a) /\ HasSize(b)
      THEN <<Cardinality(a.v \cap b.v), Cardinality(a.v \cup b.v)>>
      ELSE Zero
EdgesBetween(type, idA, idB) ==
  {k \in EdgeIdx : /\ res.edges[k].type = type
                   /\ \/ res.edges[k].source = idA /\ res.edges[k].target = idB
                      \/ res.edges[k].source = idB /\ res.edges[k].target = idA}
Joined(idA, idB) ==
  \E k \in EdgeIdx : \/ res.edges[k].source = idA /\ res.edges[k].target = idB
                     \/ res.edges[k].source = idB /\ res.edges[k].target = idA
\* the ids connected to the ids of S by a path of edges
RECURSIVE Reach(_)
Reach(S) ==
  LET T == S \cup {b \in NodeIds : \E a \in S : Joined(a, b)}
  IN  IF T = S THEN S ELSE Reach(T)

\* C1: buildGraphData returns exactly one node for each record that is
\* neither deleted nor superseded, and no node for a deleted or superseded
\* record.
NodesAreLiveRecords ==
  Built =>
    \A i \in FossilIdx :
      Cardinality({k \in NodeIdx : res.nodes[k].id = fossils[i].id})
        = IF IsLive(fossils[i]) THEN 1 ELSE 0

\* C4: two nodes have the same cluster id iff a path of edges connects them;
\* clusterCount is the number of connected components, the cluster ids in
\* use are 0..clusterCount-1, and a node without edges is alone in its
\* cluster.
ClustersAreComponents ==
  Built =>
    /\ \A i, j \in NodeIdx :
         (res.nodes[i].cluster = res.nodes[j].cluster)
           <=> (res.nodes[j].id \in Reach({res.nodes[i].id}))
    /\ res.clusterCount = Cardinality({Reach({a}) : a \in NodeIds})
    /\ {res.nodes[i].cluster : i \in NodeIdx} = 0..(res.clusterCount - 1)
    /\ \A i \in NodeIdx :
         (\A b \in NodeIds : ~Joined(res.nodes[i].id, b)) =>
           \A j \in NodeIdx : j # i => res.nodes[j].cluster # res.nodes[i].cluster

\* three nodes in one cluster, two of them joined only through the third
ClusterByPathReached ==
  /\ Built
  /\ \E i, j \in NodeIdx :
       /\ i # j
       /\ res.nodes[i].cluster = res.nodes[j].cluster
       /\ ~Joined(res.nodes[i].id, res.nodes[j].id)

\* C7: a pair of distinct non-deleted records that is not reentry-linked has
\* exactly one semantic edge, of weight equal to the similarity, when the
\* similarity is >= 0.30 and none when it is below; a reentry-linked pair
\* has no semantic edge.
SemanticEdgeIffSimilar ==
  Built =>
    \A i, j \in FossilIdx :
      (i < j /\ ~fossils[i].deleted /\ ~fossils[j].deleted) =>
        LET fA == fossils[i]
            fB == fossils[j]
            between == EdgesBetween("semantic", fA.id, fB.id)
            sim == SimOf(fA.id, fB.id)
        IN  IF fA.reentryOf = fB.id \/ fB.reentryOf = fA.id
            THEN between = {}
            ELSE IF sim[1] * 100 >= SEMANTIC_EDGE_THRESHOLD * sim[2]
            THEN /\ Cardinality(between) = 1
                 /\ \A k \in between : FracEq(res.edges[k].weight, sim)
            ELSE between = {}

\* a semantic edge at exactly 0.30, and a similar reentry-linked pair without one
SemanticEdgeAtThresholdReached ==
  /\ Built
  /\ \E k \in EdgeIdx : res.edges[k].type = "semantic"
                        /\ FracEq(res.edges[k].weight, <<3, 10>>)
  /\ \E i, j \in FossilIdx :
       /\ i # j /\ ~fossils[i].deleted /\ ~fossils[j].deleted
       /\ fossils[i].reentryOf = fossils[j].id
       /\ AtLeastPct(SimOf(fossils[i].id, fossils[j].id), SEMANTIC_EDGE_THRESHOLD)

\* C8: exactly one reentry edge (child -> reentryOf, weight 1.0) for each
\* non-deleted record whose reentryOf is the id of a non-deleted record, and
\* none for a record whose reentryOf is null, dangling or a deleted record.
ReentryEdgePerLinkedRecord ==
  Built =>
    LET reentry == {k \in EdgeIdx : res.edges[k].type = "reentry"}
        HasVisibleParent(f) ==
          /\ ~f.deleted /\ f.reentryOf # Null
          /\ \E j \in FossilIdx : fossils[j].id = f.reentryOf /\ ~fossils[j].deleted
    IN  /\ \A i \in FossilIdx :
             LET mine == {k \in reentry : res.edges[k].source = fossils[i].id}
             IN  IF HasVisibleParent(fossils[i])
                 THEN /\ Cardinality(mine) = 1
                      /\ \A k \in mine : /\ res.edges[k].target = fossils[i].reentryOf
                                         /\ res.edges[k].weight = One
                 ELSE mine = {}
        /\ Cardinality(reentry)
             = Cardinality({i \in FossilIdx : HasVisibleParent(fossils[i])})

\* one record with a reentry edge, one with a dangling reentryOf and none
ReentryEdgeAndDanglingReached ==
  /\ Built
  /\ \E k \in EdgeIdx : res.edges[k].type = "reentry"
  /\ \E i \in FossilIdx :
       /\ ~fossils[i].deleted /\ fossils[i].reentryOf # Null
       /\ \A j \in FossilIdx : fossils[j].id # fossils[i].reentryOf
       /\ \A k \in EdgeIdx : res.edges[k].source # fossils[i].id
                             \/ res.edges[k].type # "reentry"

\* C26: every edge buildGraphData returns joins two distinct nodes of the
\* returned node list (source and target are ids of returned nodes and
\* differ) and has a weight in (0, 1], also when a record's reentryOf is its
\* own id or two records name each other as reentryOf.
EdgesJoinDistinctNodes ==
  Built =>
    \A k \in EdgeIdx :
      /\ res.edges[k].source \in NodeIds
      /\ res.edges[k].target \in NodeIds
      /\ res.edges[k].source # res.edges[k].target
      /\ res.edges[k].weight[1] > 0
      /\ FracLe(res.edges[k].weight, One)

\* ========================================================= SpecConflict
MaxExisting == 2     \* longest record list handed to detectConflicts

ConflictTexts == <<
    \* 1: requirements should increase efficiency
    <<"r", "e", "q", "u", "i", "r", "e", "m", "e", "n", "t", "s", " ", "s",
      "h", "o", "u", "l", "d", " ", "i", "n", "c", "r", "e", "a", "s", "e",
      " ", "e", "f", "f", "i", "c", "i", "e", "n", "c", "y">>,
    \* 2: requirements should decrease efficiency
    <<"r", "e", "q", "u", "i", "r", "e", "m", "e", "n", "t", "s", " ", "s",
      "h", "o", "u", "l", "d", " ", "d", "e", "c", "r", "e", "a", "s", "e",
      " ", "e", "f", "f", "i", "c", "i", "e", "n", "c", "y">>,
    \* 3: Requirements should NOT increase efficiency
    <<"R", "e", "q", "u", "i", "r", "e", "m", "e", "n", "t", "s", " ", "s",
      "h", "o", "u", "l", "d", " ", "N", "O", "T", " ", "i", "n", "c", "r",
      "e", "a", "s", "e", " ", "e", "f", "f", "i", "c", "i", "e", "n", "c",
      "y">>,
    \* 4: requirements should increase efficiency across every team
    <<"r", "e", "q", "u", "i", "r", "e", "m", "e", "n", "t", "s", " ", "s",
      "h", "o", "u", "l", "d", " ", "i", "n", "c", "r", "e", "a", "s", "e",
      " ", "e", "f", "f", "i", "c", "i", "e", "n", "c", "y", " ", "a", "c",
      "r", "o", "s", "s", " ", "e", "v", "e", "r", "y", " ", "t", "e", "a",
      "m">>,
    \* 5: requirements should not increase efficiency across every team
    <<"r", "e", "q", "u", "i", "r", "e", "m", "e", "n", "t", "s", " ", "s",
      "h", "o", "u", "l", "d", " ", "n", "o", "t", " ", "i", "n", "c", "r",
      "e", "a", "s", "e", " ", "e", "f", "f", "i", "c", "i", "e", "n", "c",
      "y", " ", "a", "c", "r", "o", "s", "s", " ", "e", "v", "e", "r", "y",
      " ", "t", "e", "a", "m">>,
    \* 6: fast growth
    <<"f", "a", "s", "t", " ", "g", "r", "o", "w", "t", "h">>,
    \* 7: slow growth matters
    <<"s", "l", "o", "w", " ", "g", "r", "o", "w", "t", "h", " ", "m", "a",
      "t", "t", "e", "r", "s">>,
    \* 8: requirements should decrease, efficiency
    <<"r", "e", "q", "u", "i", "r", "e", "m", "e", "n", "t", "s", " ", "s",
      "h", "o", "u", "l", "d", " ", "d", "e", "c", "r", "e", "a", "s", "e",
      ",", " ", "e", "f", "f", "i", "c", "i", "e", "n", "c", "y">>,
    \* 9: requirements should not decrease efficiency
    <<"r", "e", "q", "u", "i", "r", "e", "m", "e", "n", "t", "s", " ", "s",
      "h", "o", "u", "l", "d", " ", "n", "o", "t", " ", "d", "e", "c", "r",
      "e", "a", "s", "e", " ", "e", "f", "f", "i", "c", "i", "e", "n", "c",
      "y">> >>
\* the texts typed as the new invariant
NewTextChoices == {1, 5, 6}
ProbeText ==
    <<"e", "f", "f", "i", "c", "i", "e", "n", "c", "y", " ", "h", "u", "n",
      "t">>

\* fossilTokenIndex of the application: tokenize(`${probeIntent} ${invariant}`)
\* for every non-deleted record
BuildTokenIndex(fs) ==
  [id \in {fs[i].id : i \in {k \in 1..Len(fs) : ~fs[k].deleted}} |->
     LET f == fs[CHOOSE k \in 1..Len(fs) : fs[k].id = id]
     IN  tokenize(f.probeIntent \o <<Space>> \o f.invariant)]
EmptyIndex == [id \in {} |-> JsUndefined]

\* Records 1..n each with a text of ConflictTexts as invariant; one record
\* may be deleted or superseded; either the records carry the probe intent
\* ProbeText and the index is the application's, or they carry no probe
\* intent and the index is an empty Map.
InitConflict ==
  /\ \E n \in 0..MaxExisting :
       \E ks \in {k \in KindChoices(n) : \A i \in 1..n : k[i] # "deletedSuperseded"} :
         \E txt \in [1..n -> 1..Len(ConflictTexts)] :
           \E indexed \in BOOLEAN :
             LET probe == IF indexed THEN ProbeText ELSE <<>> IN
               /\ fossils = [i \in 1..n |->
                    [createFossil(i) EXCEPT
                       !.deleted = IsDeletedKind(ks[i]),
                       !.supersededBy = IF IsSupersededKind(ks[i]) THEN i + 1 ELSE Null,
                       !.probeIntent = probe,
                       !.invariant = ConflictTexts[txt[i]]]]
               /\ tokenIndex = IF indexed THEN BuildTokenIndex(fossils) ELSE EmptyIndex
  /\ \E t \in NewTextChoices : arg = [newInvariant |-> ConflictTexts[t]]
  /\ now = 0
  /\ op = "none" /\ res = Zero
  /\ IdleWalk
  /\ FreshTokenizer

CallDetectConflicts ==
  /\ op = "none"
  /\ op' = "detectConflicts"
  /\ res' = detectConflicts(arg.newInvariant, fossils, tokenIndex)
  /\ UNCHANGED <<InputVars, TokenizerVars, WalkVars>>

NextConflict == CallDetectConflicts
SpecConflict == InitConflict /\ [][NextConflict]_vars

\* -- vocabulary of the conflict claims
Detected == op = "detectConflicts"
\* |A n B| / |A u B| of the new text's tokens and the record's tokens
SimOfSets(A, B) ==
  IF A = {} \/ B = {} THEN Zero
  ELSE <<Cardinality(A \cap B), Cardinality(A \cup B)>>
SimToNew(f) == SimOfSets(tokenize(arg.newInvariant).v, TokensFor(tokenIndex, f).v)
InBandFrac(sim) ==
  /\ sim[1] * 100 >= CONFLICT_THRESHOLD_MIN * sim[2]
  /\ sim[1] * 100 < CONFLICT_THRESHOLD_MAX * sim[2]
InBandOfNew(f) == InBandFrac(SimToNew(f))
EntriesOf(f) == {k \in 1..Len(res) : res[k].fossil.id = f.id}
\* the words of a text: its maximal runs of non-space characters, lower-cased
WordOfTextAt(text, i) ==
  LET end == CHOOSE j \in i..Len(text) :
               /\ \A k \in i..j : text[k] # Space
               /\ (j = Len(text) \/ text[j + 1] = Space)
  IN  [k \in 1..(end - i + 1) |-> LowerChar(text[i + k - 1])]
WordsOfText(text) ==
  {WordOfTextAt(text, i) :
     i \in {j \in 1..Len(text) : text[j] # Space /\ (j = 1 \/ text[j - 1] = Space)}}
AntonymAmong(wordsA, wordsB) ==
  \E k \in 1..Len(ANTONYM_PAIRS) :
    \/ ANTONYM_PAIRS[k][1] \in wordsA /\ ANTONYM_PAIRS[k][2] \in wordsB
    \/ ANTONYM_PAIRS[k][2] \in wordsA /\ ANTONYM_PAIRS[k][1] \in wordsB
AntonymSplit(textA, textB) == AntonymAmong(WordsOfText(textA), WordsOfText(textB))
NegationDisagrees(textA, textB) == HasNegation(textA) # HasNegation(textB)

\* C5: every entry of detectConflicts is a record of the list that is not
\* deleted, not superseded and has 0.25 <= similarity < 0.85 to the new
\* text; a record outside the band never appears, whatever its signals.
ConflictsInsideBand ==
  Detected =>
    /\ \A k \in 1..Len(res) :
         /\ \E i \in FossilIdx : fossils[i] = res[k].fossil
         /\ ~res[k].fossil.deleted
         /\ res[k].fossil.supersededBy = Null
         /\ InBandOfNew(res[k].fossil)
    /\ \A i \in FossilIdx : ~InBandOfNew(fossils[i]) => EntriesOf(fossils[i]) = {}

\* an entry is returned while a live record above the band that disagrees on
\* negation is left out
ConflictAboveBandLeftOutReached ==
  /\ Detected
  /\ Len(res) > 0
  /\ \E i \in FossilIdx :
       /\ IsLive(fossils[i])
       /\ AtLeastPct(SimToNew(fossils[i]), CONFLICT_THRESHOLD_MAX)
       /\ NegationDisagrees(arg.newInvariant, fossils[i].invariant)
       /\ EntriesOf(fossils[i]) = {}

\* C6: a live record inside the band is returned (once) exactly when the
\* texts disagree on a negation marker or hold an antonym pair, one word in
\* each text; the reason is "negation" whenever the negation disagreement
\* holds and "semantic" when only an antonym pair is present, as for
\* "requirements should increase efficiency" against "... decrease ...".
ConflictIffSignal ==
  Detected =>
    /\ \A i \in FossilIdx :
         (IsLive(fossils[i]) /\ InBandOfNew(fossils[i])) =>
           LET f == fossils[i]
               neg == NegationDisagrees(arg.newInvariant, f.invariant)
               ant == AntonymSplit(arg.newInvariant, f.invariant)
           IN  IF neg \/ ant
               THEN /\ Cardinality(EntriesOf(f)) = 1
                    /\ \A k \in EntriesOf(f) :
                         res[k].reason = IF neg THEN "negation" ELSE "semantic"
               ELSE EntriesOf(f) = {}
    /\ \A i \in FossilIdx :
         (/\ IsLive(fossils[i])
          /\ arg.newInvariant = ConflictTexts[1]
          /\ fossils[i].invariant = ConflictTexts[2]
          /\ fossils[i].probeIntent = <<>>) =>
           \E k \in EntriesOf(fossils[i]) : res[k].reason = "semantic"

\* the increase/decrease pair is flagged "semantic" and a record with both
\* signals is flagged "negation"
SemanticAndNegationReached ==
  /\ Detected
  /\ arg.newInvariant = ConflictTexts[1]
  /\ \E k \in 1..Len(res) :
       /\ res[k].fossil.invariant = ConflictTexts[2]
       /\ res[k].reason = "semantic"
  /\ \E k \in 1..Len(res) :
       /\ res[k].reason = "negation"
       /\ res[k].oppositions # <<>>

\* ========================================================== SpecLayout
MaxNodes == 2        \* most nodes handed to layoutGraph

\* viewport sizes: below the padding, below twice the padding, exactly twice
\* the padding, and the application's 600 x 400
WidthChoices == {30, 50, 80, 600}
HeightChoices == {30, 80, 400}
\* coordinates the force loop may leave a node at (it is not confined to
\* the viewport)
SettledChoices == {-100, 0, 60, 900}

\* The force loop (initial circle, repulsion, attraction, damping) computes
\* finite positions that depend on the edges; the model draws them from
\* SettledChoices instead of computing them, and layoutGraph normalises
\* whatever positions it is given.
InitLayout ==
  /\ fossils = <<>> /\ tokenIndex = <<>> /\ now = 0
  /\ \E n \in 0..MaxNodes :
       \E settled \in [1..n -> SettledChoices \X SettledChoices] :
         \E w \in WidthChoices :
           \E h \in HeightChoices :
             arg = [nodes |-> [i \in 1..n |-> [id |-> i]],
                    settled |-> settled, width |-> w, height |-> h]
  /\ op = "none" /\ res = Zero
  /\ IdleWalk
  /\ FreshTokenizer

CallLayoutGraph ==
  /\ op = "none"
  /\ op' = "layoutGraph"
  /\ res' = layoutGraph(arg.nodes, arg.settled, arg.width, arg.height)
  /\ UNCHANGED <<InputVars, TokenizerVars, WalkVars>>

NextLayout == CallLayoutGraph
SpecLayout == InitLayout /\ [][NextLayout]_vars

\* 0 <= p <= bound for a fraction p with a positive denominator
FracWithin(p, bound) == 0 <= p[1] /\ p[1] <= bound * p[2]

\* C9: after layoutGraph on a non-empty node list, with any positive width
\* and height, every node's x is in [0, width] and every y in [0, height].
LayoutInsideViewport ==
  (op = "layoutGraph" /\ Len(arg.nodes) > 0) =>
    \A i \in 1..Len(res) :
      /\ FracWithin(res[i].x, arg.width)
      /\ FracWithin(res[i].y, arg.height)

\* ======================================================== SpecResurface
\* Record lists for the resurfacing selectors.  The record at position i
\* is AgeDays[i] days old, was sealed on day 1, was never revisited or
\* dismissed and carries one of ResurfaceTexts; up to two records of a list
\* depart from that in the way their kind names.
MaxRecords == 6
AgeDays == <<10, 30, 8, 100, 20, 9, 50, 14>>
NowChoices == {24001}
TodayKeyChoices == {2}
DrawChoices == 1..(TOP_N + 1)
ResurfaceTexts == <<ProbeText, ConflictTexts[1], ConflictTexts[6]>>
ContextChoices == {JsNull, JsString(<<>>), JsString(ProbeText)}
ResurfaceKinds ==
  {"plain", "deleted", "superseded", "today", "dismissedFuture",
   "dismissedNow", "young", "weekOld", "valued", "child", "ignored",
   "overReinforced"}

ResurfaceKindChoices(n) ==
  {[i \in 1..n |-> IF i = a THEN ka ELSE IF i = b THEN kb ELSE "plain"] :
     a \in 1..n, b \in 1..n, ka \in ResurfaceKinds, kb \in ResurfaceKinds}

PlainRecord(i, t) ==
  [createFossil(i) EXCEPT
     !.createdAt = t - HOURS_PER_DAY * AgeDays[((i - 1) % Len(AgeDays)) + 1],
     !.invariant = ResurfaceTexts[((i - 1) % Len(ResurfaceTexts)) + 1]]

RecordOfKind(i, kind, t) ==
  CASE kind = "deleted" -> [PlainRecord(i, t) EXCEPT !.deleted = TRUE]
    [] kind = "superseded" -> [PlainRecord(i, t) EXCEPT !.supersededBy = i + 1]
    [] kind = "today" -> [PlainRecord(i, t) EXCEPT !.dayKey = 2]
    [] kind = "dismissedFuture" ->
         [PlainRecord(i, t) EXCEPT !.dismissedUntil = t + HOURS_PER_DAY,
                                   !.dismissCount = 1]
    [] kind = "dismissedNow" ->
         [PlainRecord(i, t) EXCEPT !.dismissedUntil = t, !.dismissCount = 3]
    [] kind = "young" ->
         [PlainRecord(i, t) EXCEPT
            !.createdAt = t - (MIN_AGE_DAYS * HOURS_PER_DAY - 1)]
    [] kind = "weekOld" ->
         [PlainRecord(i, t) EXCEPT !.createdAt = t - MIN_AGE_DAYS * HOURS_PER_DAY]
    [] kind = "valued" ->
         [PlainRecord(i, t) EXCEPT !.reinforceCount = 3, !.reuseCount = 6,
                                   !.quality = 5, !.lastRevisitedAt = t - 49]
    [] kind = "child" -> [PlainRecord(i, t) EXCEPT !.reentryOf = 1]
    [] kind = "ignored" ->
         [PlainRecord(i, t) EXCEPT !.dismissCount = 3, !.skipCount = 4,
                                   !.quality = 1]
    [] kind = "overReinforced" ->
         [PlainRecord(i, t) EXCEPT !.reinforceCount = 6100]
    [] OTHER -> PlainRecord(i, t)

InitResurface ==
  /\ now \in NowChoices
  /\ \E n \in 0..MaxRecords :
       \E ks \in ResurfaceKindChoices(n) :
         fossils = [i \in 1..n |-> RecordOfKind(i, ks[i], now)]
  /\ tokenIndex = BuildTokenIndex(fossils)
  /\ arg = NoArg
  /\ op = "none" /\ res = JsNull
  /\ IdleWalk
  /\ FreshTokenizer

\* checkResurface: selectResurfaceFossil(data.fossils, todayKey)
CallSelectResurfaceFossil ==
  /\ op = "none"
  /\ \E todayKey \in TodayKeyChoices :
       \E draw \in DrawChoices :
         /\ arg' = [todayKey |-> todayKey, draw |-> draw]
         /\ res' = selectResurfaceFossil(fossils, todayKey, now, draw)
  /\ op' = "selectResurfaceFossil"
  /\ UNCHANGED <<fossils, tokenIndex, now, TokenizerVars, WalkVars>>

CallSelectContextualResurface ==
  /\ op = "none"
  /\ \E currentContext \in ContextChoices :
       \E todayKey \in TodayKeyChoices :
         \E draw \in DrawChoices :
           /\ arg' = [currentContext |-> currentContext,
                      todayKey |-> todayKey, draw |-> draw]
           /\ res' = selectContextualResurface(fossils, tokenIndex,
                                               currentContext, todayKey, now, draw)
  /\ op' = "selectContextualResurface"
  /\ UNCHANGED <<fossils, tokenIndex, now, TokenizerVars, WalkVars>>

NextResurface ==
  \/ CallSelectResurfaceFossil
  \/ CallSelectContextualResurface
SpecResurface == InitResurface /\ [][NextResurface]_vars

SelectorCalled == op \in {"selectResurfaceFossil", "selectContextualResurface"}

\* the eligibility filter, as the specification words it
PassesFilter(f) ==
  /\ ~f.deleted
  /\ f.dayKey # arg.todayKey
  /\ f.supersededBy = Null
  /\ (f.dismissedUntil = Null \/ f.dismissedUntil <= now)
AtLeastWeekOld(f) == now - f.createdAt >= MIN_AGE_DAYS * HOURS_PER_DAY

\* C3: selectContextualResurface and selectResurfaceFossil return null or
\* a record of the list that is not deleted, has a dayKey other than
\* todayKey, is not superseded, is not dismissed into the future and is at
\* least 7 days old; they return null when no record passes the filter.
ResurfacedIsEligible ==
  SelectorCalled =>
    /\ \/ res = JsNull
       \/ /\ \E k \in 1..Len(fossils) : fossils[k] = res
          /\ PassesFilter(res)
          /\ AtLeastWeekOld(res)
    /\ (\A k \in 1..Len(fossils) : ~PassesFilter(fossils[k])) => res = JsNull

\* a record was returned from a list that also holds a record the filter
\* rejects and a record that passes the filter but is under 7 days old
ResurfacedPastIneligibleReached ==
  /\ op = "selectContextualResurface"
  /\ res # JsNull
  /\ \E k \in 1..Len(fossils) : ~PassesFilter(fossils[k])
  /\ \E k \in 1..Len(fossils) :
       PassesFilter(fossils[k]) /\ ~AtLeastWeekOld(fossils[k])

\* the records the selectors score and keep: they pass the filter and
\* their decay score is above the -900 cut-off
IsCandidate(f) ==
  PassesFilter(f) /\ calculateDecayScore(f, fossils, now) > SENTINEL_CUTOFF
Candidates == {k \in 1..Len(fossils) : IsCandidate(fossils[k])}
FilterPassers == {k \in 1..Len(fossils) : PassesFilter(fossils[k])}

\* C14 (as stated): when exactly one record passes the eligibility filter,
\* selectContextualResurface returns that record for every random draw.
OnlyFilterPasserReturned ==
  (op = "selectContextualResurface" /\ Cardinality(FilterPassers) = 1) =>
    \A k \in FilterPassers : res = fossils[k]

\* C14 (amended): when exactly one record passes the eligibility filter
\* with a decay score above the -900 cut-off (it is at least 7 days old),
\* selectContextualResurface returns that record for every random draw.
OnlyCandidateReturned ==
  (op = "selectContextualResurface" /\ Cardinality(Candidates) = 1) =>
    \A k \in Candidates : res = fossils[k]

\* the single candidate was returned from a list of several records on a
\* draw that ran past the end of the weighted loop
OnlyCandidateOnLateDrawReached ==
  /\ op = "selectContextualResurface"
  /\ Cardinality(Candidates) = 1
  /\ Len(fossils) >= 3
  /\ Cardinality(FilterPassers) >= 2
  /\ arg.draw > 1
  /\ \A k \in Candidates : res = fossils[k]

\* --- the combined score of the contextual selector
TotalScoreAt(k, contextTokens) ==
  TotalScore(calculateDecayScore(fossils[k], fossils, now),
             ContextScore(fossils[k], tokenIndex, contextTokens),
             calculateEngagementScore(fossils[k], now))
\* the combined scores of the candidates, by position
CandidateScores ==
  LET contextTokens == ContextTokens(arg.currentContext)
  IN  [k \in Candidates |-> TotalScoreAt(k, contextTokens)]
\* the candidates of strictly higher combined score than the record at k
Outranking(score, k) ==
  {j \in DOMAIN score : ~FracLe(score[j], score[k])}
ContextualReturned == op = "selectContextualResurface" /\ res # JsNull

\* C24: the record selectContextualResurface returns is one of the five
\* highest candidates by combined score (decay + engagement + context), so
\* a candidate ranked sixth or lower is never returned whatever the draw;
\* when the weighted loop selects no candidate the highest-scored one is
\* returned.
ReturnedAmongTopFive ==
  ContextualReturned =>
    LET score == CandidateScores
    IN  \E k \in DOMAIN score :
          /\ fossils[k] = res
          /\ Cardinality(Outranking(score, k)) < TOP_N
          /\ arg.draw > Min2(Cardinality(DOMAIN score), TOP_N)
               => Outranking(score, k) = {}

\* of more than five candidates the fifth-ranked one was returned
FifthOfSixReturned ==
  /\ ContextualReturned
  /\ arg.draw = TOP_N
  /\ LET score == CandidateScores
     IN  /\ Cardinality(DOMAIN score) > TOP_N
         /\ \E k \in DOMAIN score :
              fossils[k] = res /\ Cardinality(Outranking(score, k)) = TOP_N - 1

\* ============================================================ SpecDecay
\* calculateDecayScore on a record and on a second record that differs
\* from it in quality or in reuseCount only (or not at all), as the tests
\* of intelligence.test.js compare them; allFossils holds no record, a
\* child of the record or a deleted child.
MaxReuse == 6
MaxReinforce == 2
DecayNow == 24001
AgeHourChoices == {-24, 48, 167, 168, 240, 720}
RevisitAgoChoices == {0, 49, 168}
QualityChoices == 0..5
ChildChoices == {"none", "child", "deletedChild"}

DecayRecord(age, quality, reuseCount, reinforceCount, revisitAgo) ==
  [createFossil(1) EXCEPT
     !.createdAt = DecayNow - age,
     !.quality = quality,
     !.reuseCount = reuseCount,
     !.reinforceCount = reinforceCount,
     !.lastRevisitedAt = IF revisitAgo = 0 THEN Null ELSE DecayNow - revisitAgo]

ChildRecords(c) ==
  CASE c = "child" -> <<[createFossil(2) EXCEPT !.reentryOf = 1]>>
    [] c = "deletedChild" ->
         <<[createFossil(2) EXCEPT !.reentryOf = 1, !.deleted = TRUE]>>
    [] OTHER -> <<>>

InitDecay ==
  /\ now = DecayNow
  /\ \E c \in ChildChoices : fossils = ChildRecords(c)
  /\ \E age \in AgeHourChoices, quality \in QualityChoices,
        reuseCount \in 0..MaxReuse, reinforceCount \in 0..MaxReinforce,
        revisitAgo \in RevisitAgoChoices :
       LET fossil == DecayRecord(age, quality, reuseCount, reinforceCount,
                                 revisitAgo)
       IN  \/ \E q \in QualityChoices :
                arg = [fossil |-> fossil, other |-> [fossil EXCEPT !.quality = q]]
           \/ \E r \in 0..MaxReuse :
                arg = [fossil |-> fossil, other |-> [fossil EXCEPT !.reuseCount = r]]
  /\ tokenIndex = <<>>
  /\ op = "none" /\ res = <<>>
  /\ IdleWalk
  /\ FreshTokenizer

\* calculateDecayScore(fossil, allFossils) and calculateDecayScore(other,
\* allFossils), the two scores a test compares
CallCalculateDecayScore ==
  /\ op = "none"
  /\ op' = "calculateDecayScore"
  /\ res' = <<calculateDecayScore(arg.fossil, fossils, now),
              calculateDecayScore(arg.other, fossils, now)>>
  /\ UNCHANGED <<InputVars, TokenizerVars, WalkVars>>

NextDecay == CallCalculateDecayScore
SpecDecay == InitDecay /\ [][NextDecay]_vars

DecayScored == op = "calculateDecayScore"
AgeHours(f) == now - f.createdAt
BothWeekOld ==
  /\ AgeHours(arg.fossil) >= MIN_AGE_DAYS * HOURS_PER_DAY
  /\ AgeHours(arg.other) >= MIN_AGE_DAYS * HOURS_PER_DAY

\* C15: calculateDecayScore returns exactly -999 for every record created
\* less than 7 days before now, whatever its other fields and the other
\* records.
YoungScoresSentinel ==
  (DecayScored /\ AgeHours(arg.fossil) < MIN_AGE_DAYS * HOURS_PER_DAY) =>
    res[1] = -999 * SCORE_UNIT

\* a record one hour short of 7 days, of top quality, reused, reinforced,
\* revisited and with a child, scored -999
YoungValuedRecordReached ==
  /\ DecayScored
  /\ AgeHours(arg.fossil) = MIN_AGE_DAYS * HOURS_PER_DAY - 1
  /\ arg.fossil.quality = 5 /\ arg.fossil.reuseCount > 0
  /\ arg.fossil.reinforceCount > 0 /\ arg.fossil.lastRevisitedAt # Null
  /\ Len(fossils) = 1 /\ ~fossils[1].deleted
  /\ res[1] = -999 * SCORE_UNIT

\* C16: of two records at least 7 days old that are identical except for
\* quality (1..5), the one with the lower quality has the strictly higher
\* decay score.
LowerQualityScoresHigher ==
  (/\ DecayScored /\ BothWeekOld
   /\ arg.other = [arg.fossil EXCEPT !.quality = arg.other.quality]
   /\ arg.fossil.quality \in 1..5 /\ arg.other.quality \in 1..5
   /\ arg.fossil.quality < arg.other.quality)
    => res[1] > res[2]

\* two week-old records of neighbouring qualities were scored
NeighbourQualitiesReached ==
  /\ DecayScored /\ BothWeekOld
  /\ arg.fossil.quality = 4 /\ arg.other.quality = 5
  /\ arg.other = [arg.fossil EXCEPT !.quality = 5]
  /\ res[1] > res[2]

\* C17: of two records at least 7 days old that are identical except for
\* reuseCount, the one with the smaller reuseCount never scores lower,
\* scores strictly higher when the smaller reuseCount is below 5, and
\* scores the same when both reuseCounts are 5 or more.
SmallerReuseScoresHigher ==
  (/\ DecayScored /\ BothWeekOld
   /\ arg.other = [arg.fossil EXCEPT !.reuseCount = arg.other.reuseCount]
   /\ arg.fossil.reuseCount < arg.other.reuseCount)
    => /\ res[1] >= res[2]
       /\ arg.fossil.reuseCount < 5 => res[1] > res[2]
       /\ arg.fossil.reuseCount >= 5 => res[1] = res[2]

\* two week-old records with reuseCounts 5 and 6 scored the same
CappedReuseReached ==
  /\ DecayScored /\ BothWeekOld
  /\ arg.fossil.reuseCount = 5 /\ arg.other.reuseCount = 6
  /\ arg.other = [arg.fossil EXCEPT !.reuseCount = 6]
  /\ res[1] = res[2]

\* ======================================================== SpecTokenizer
\* The memoising tokenize of autolink.js.  A Set object is its reference,
\* the number of its allocation; heap[ref] holds its members.  The cache is
\* the Map as the sequence of its entries, oldest insertion first.
\* MAX_CACHE_SIZE is 1000 in the source; here it is a bound.
MAX_CACHE_SIZE == 2
MaxCalls == 5
ABC == <<"a", "b", "c">>
ABCUPPER == <<"A", "b", "c">>
ABCDEF == <<"a", "b", "c", " ", "d", "e", "-", "f">>
ABSHORT == <<"a", "b">>
X1Y == <<"x", "1", "y", " ", "z">>
TokenizerInputs ==
  <<<<>>, ABC, ABCUPPER, ABCDEF, ABSHORT, X1Y>>

\* cache.has(s)
CacheHasNewest(c, s) == Len(c) > 0 /\ c[Len(c)].key = s

CacheHas(c, s) == \E k \in 1..Len(c) : c[k].key = s

\* cache.get(s)
CacheGetOldest(c, s) == c[1].value

CacheGet(c, s) == c[CHOOSE k \in 1..Len(c) : c[k].key = s].value

\* if (cache.size >= MAX_CACHE_SIZE) cache.delete(cache.keys().next().value)
EvictedNewest(c) ==
  IF Len(c) >= MAX_CACHE_SIZE THEN SubSeq(c, 1, Len(c) - 1) ELSE c

Evicted(c) == IF Len(c) >= MAX_CACHE_SIZE THEN Tail(c) ELSE c

\* cache.set(s, tokens) for a key the Map does not hold
CacheSet(c, s, ref) == Append(c, [key |-> s, value |-> ref])

\* new Set(s.toLowerCase().match(/[a-z0-9][a-z0-9'-]{2,}/g) || [])
MatchedTokens(s) == MatchTokens(toLowerCase(s), 1)

InitTokenizer ==
  /\ fossils = <<>> /\ tokenIndex = <<>> /\ now = 0
  /\ arg = NoArg
  /\ op = "none" /\ res = Null
  /\ IdleWalk
  /\ FreshTokenizer

\* tokenize(s): `if (!s) return new Set()'
TokenizeEmpty(s) ==
  /\ s = <<>>
  /\ heap' = Append(heap, {})
  /\ res' = Len(heap) + 1
  /\ cache' = cache

\* tokenize(s): `if (cache.has(s)) return cache.get(s)'
TokenizeHit(s) ==
  /\ s # <<>>
  /\ CacheHas(cache, s)
  /\ res' = CacheGet(cache, s)
  /\ UNCHANGED <<cache, heap>>

\* tokenize(s): the rest, for a string the cache does not hold
TokenizeMiss(s) ==
  /\ s # <<>>
  /\ ~CacheHas(cache, s)
  /\ heap' = Append(heap, MatchedTokens(s))
  /\ cache' = CacheSet(Evicted(cache), s, Len(heap) + 1)
  /\ res' = Len(heap) + 1

CallTokenize ==
  /\ Len(calls) < MaxCalls
  /\ \E k \in 1..Len(TokenizerInputs) :
       LET s == TokenizerInputs[k]
       IN  /\ TokenizeEmpty(s) \/ TokenizeHit(s) \/ TokenizeMiss(s)
           /\ arg' = [s |-> s]
           /\ calls' = Append(calls, [s |-> s, ref |-> res',
                                      missed |-> s # <<>> /\ ~CacheHas(cache, s)])
  /\ op' = "tokenize"
  /\ UNCHANGED <<fossils, tokenIndex, now, WalkVars>>

NextTokenizer == CallTokenize
SpecTokenizer == InitTokenizer /\ [][NextTokenizer]_vars

\* the call that inserted the cache entry which call i returned or created
InsertedAt(i) ==
  CHOOSE m \in 1..i :
    /\ calls[m].s = calls[i].s /\ calls[m].missed
    /\ \A k \in (m + 1)..i : ~(calls[k].s = calls[i].s /\ calls[k].missed)
\* the cache misses strictly between calls m and j
MissesBetween(m, j) == Cardinality({k \in (m + 1)..(j - 1) : calls[k].missed})
SameString(i, j) == i < j /\ calls[i].s = calls[j].s /\ calls[i].s # <<>>

\* C11 (as stated): any two tokenize calls with the same non-empty string
\* return the very same Set object, whatever calls are made between them.
SameStringSameObject ==
  \A i \in 1..Len(calls) : \A j \in 1..Len(calls) :
    SameString(i, j) => calls[i].ref = calls[j].ref

\* C11 (amended): two tokenize calls with the same non-empty string return
\* the very same Set object provided fewer than MAX_CACHE_SIZE cache misses
\* happen between the call that inserted the string and the later call.
SameObjectWhileCached ==
  \A i \in 1..Len(calls) : \A j \in 1..Len(calls) :
    (SameString(i, j) /\ MissesBetween(InsertedAt(i), j) < MAX_CACHE_SIZE)
      => calls[i].ref = calls[j].ref

\* the same object came back although a miss on a full cache, evicting
\* another string, lay between the two calls
SameObjectAcrossEvictionReached ==
  \E i \in 1..Len(calls) : \E j \in 1..Len(calls) :
    /\ SameString(i, j)
    /\ calls[i].ref = calls[j].ref
    /\ \E k \in (i + 1)..(j - 1) :
         calls[k].missed /\ MissesBetween(0, k) >= MAX_CACHE_SIZE

\* the string of the call a step makes, and whether the cache held it
StepString == calls'[Len(calls')].s
StepIsCall == Len(calls') = Len(calls) + 1

\* C12: the cache never holds more than MAX_CACHE_SIZE entries; a call with
\* a new string on a full cache evicts exactly the entry inserted earliest
\* and appends the new one; a cache hit leaves the entries and their order
\* unchanged.
CacheBoundedOldestEvicted ==
  /\ [](Len(cache) <= MAX_CACHE_SIZE)
  /\ [][StepIsCall =>
          /\ (StepString # <<>> /\ CacheHas(cache, StepString)) => cache' = cache
          /\ (StepString # <<>> /\ ~CacheHas(cache, StepString)
                /\ Len(cache) = MAX_CACHE_SIZE) =>
               /\ Len(cache') = MAX_CACHE_SIZE
               /\ SubSeq(cache', 1, MAX_CACHE_SIZE - 1) = Tail(cache)
               /\ cache'[MAX_CACHE_SIZE].key = StepString]_vars

\* the cache is full, its oldest entry has been evicted at least once and a
\* hit has been served since
EvictionThenHitReached ==
  /\ Len(cache) = MAX_CACHE_SIZE
  /\ MissesBetween(0, Len(calls) + 1) > MAX_CACHE_SIZE
  /\ \E k \in 1..Len(calls) :
       /\ calls[k].s # <<>> /\ ~calls[k].missed
       /\ MissesBetween(0, k) >= MAX_CACHE_SIZE + 1

\* C13: the Set every tokenize call returned holds exactly the tokens the
\* tokenizer without a cache computes for the call's string.
CachedTokensAsUncached ==
  \A i \in 1..Len(calls) : heap[calls[i].ref] = tokenize(calls[i].s).v

\* a hit was served for a string that had been evicted and inserted again
HitAfterReinsertReached ==
  \E i \in 1..Len(calls) : \E j \in 1..Len(calls) : \E k \in 1..Len(calls) :
    /\ SameString(i, j) /\ SameString(j, k)
    /\ calls[i].missed /\ calls[j].missed /\ ~calls[k].missed
    /\ heap[calls[k].ref] # {}

\* =========================================================== SpecTokens
\* One call of tokenize on a fresh cache, for every string of up to MaxChars
\* characters over a small alphabet, the texts of the tests, null and
\* undefined.
MaxChars == 4

TokenAlphabet == {"a", "B", "1", "-", "'", " ", "_"}
ShortStrings == UNION {[1..n -> TokenAlphabet] : n \in 0..MaxChars}

SELF_REFERENTIAL ==
  <<"s", "e", "l", "f", "-", "r", "e", "f", "e", "r", "e", "n", "t", "i", "a", "l">>
LOOP == <<"l", "o", "o", "p">>
PROGRAMMER == <<"p", "r", "o", "g", "r", "a", "m", "m", "e", "r">>
HyphenatedText == Words(<<SELF_REFERENTIAL, LOOP>>)
ProgrammerText == Words(<<<<"I">>, <<"a", "m">>, <<"a">>, PROGRAMMER>>)
UpperText == Words(<<<<"L", "O", "O", "P">>, LOOP>>)

TokenizeArgs ==
  {JsNull, JsUndefined}
    \cup {JsString(s) : s \in ShortStrings \cup {HyphenatedText, ProgrammerText, UpperText}}

\* !s: null, undefined and the empty string are falsy
IsFalsy(x) == x \in {JsNull, JsUndefined} \/ x = JsString(<<>>)

InitTokens ==
  /\ arg \in TokenizeArgs
  /\ fossils = <<>> /\ tokenIndex = <<>> /\ now = 0
  /\ op = "init" /\ res = Null
  /\ IdleWalk
  /\ FreshTokenizer

CallTokenizeOnce ==
  /\ op = "init"
  /\ IF IsFalsy(arg)
     THEN /\ heap' = Append(heap, {})
          /\ res' = Len(heap) + 1
          /\ cache' = cache
     ELSE TokenizeMiss(arg.v)
  /\ calls' = Append(calls, [s |-> arg, ref |-> res', missed |-> ~IsFalsy(arg)])
  /\ op' = "tokenize"
  /\ UNCHANGED <<fossils, tokenIndex, arg, now, WalkVars>>

NextTokens == CallTokenizeOnce

SpecTokens == InitTokens /\ [][NextTokens]_vars

Tokenized == op = "tokenize"
ReturnedTokens == heap[res]
IsLetterOrDigit(c) == c \in LowerSet \cup UpperSet \cup Digits

\* C22: tokenize returns the empty set for empty, null or undefined input;
\* otherwise every token is lower-case, at least 3 characters long, begins
\* with a letter or digit and contains only letters, digits, hyphens and
\* apostrophes; a 2-character word is never a token and a hyphenated word
\* such as self-referential is a single token.
TokensAreLowerCaseRuns ==
  Tokenized =>
    /\ IsFalsy(arg) => ReturnedTokens = {}
    /\ \A token \in ReturnedTokens :
         /\ Len(token) >= 3
         /\ IsLetterOrDigit(token[1])
         /\ \A i \in 1..Len(token) :
              /\ IsLetterOrDigit(token[i]) \/ token[i] \in {"-", "'"}
              /\ token[i] \notin UpperSet
    /\ arg = JsString(ProgrammerText) =>
         /\ PROGRAMMER \in ReturnedTokens
         /\ <<"a", "m">> \notin ReturnedTokens
    /\ arg = JsString(HyphenatedText) =>
         /\ SELF_REFERENTIAL \in ReturnedTokens
         /\ <<"s", "e", "l", "f">> \notin ReturnedTokens
    /\ arg = JsString(UpperText) => ReturnedTokens = {LOOP}

\* the hyphenated text gave exactly its two words
HyphenatedTokenReached ==
  /\ Tokenized
  /\ arg = JsString(HyphenatedText)
  /\ ReturnedTokens = {SELF_REFERENTIAL, LOOP}

\* ======================================================= SpecGraphData
\* the graph the application hands to the layout and the view, for the
\* record lists of SpecGraph and a few lists of manual edges (one of them
\* names an id that no record has)
ABSENT_ID == 99
ManualEdgeChoices ==
  {<<Edge(1, 2)>>, <<Edge(3, 1), Edge(1, ABSENT_ID)>>, <<Edge(2, 3), Edge(2, 1)>>}

CallGraphData ==
  /\ op = "none"
  /\ \E manualEdges \in ManualEdgeChoices :
       /\ arg' = [manualEdges |-> manualEdges]
       /\ res' = graphData(fossils, tokenIndex, manualEdges)
  /\ op' = "graphData"
  /\ UNCHANGED <<fossils, tokenIndex, now, TokenizerVars, WalkVars>>

NextGraphData == CallGraphData
SpecGraphData == InitGraph /\ [][NextGraphData]_vars

GraphHandedOver == op = "graphData"
ManualEdgeIdx == {k \in EdgeIdx : res.edges[k].type = "manual"}
ClusterOfId(id) == res.nodes[CHOOSE i \in NodeIdx : res.nodes[i].id = id].cluster

\* C25: in the graph the application hands to the layout and the view, two
\* nodes joined by a manual edge have the same cluster id, and clusterCount
\* is the number of connected components of the graph with all of its
\* edges, manual edges included.
ManualEdgesInsideClusters ==
  GraphHandedOver =>
    /\ \A k \in ManualEdgeIdx :
         ClusterOfId(res.edges[k].source) = ClusterOfId(res.edges[k].target)
    /\ res.clusterCount = Cardinality({Reach({a}) : a \in NodeIds})

\* ============================================================= SpecLink
\* detectClusters and suggestConnections over record lists whose token sets
\* are chosen so that similarities fall on, below and above the thresholds.
MaxLinked == 6

LongTok(c) == <<c, c, c, c>>
ShortTok(c) == <<c, c, c>>

LinkKinds ==
  {"plain", "short", "same", "wide", "bigA", "bigB",
   "deleted", "superseded", "child", "childOfNext"}
LinkLayouts == {"group", "path"}

LinkKindChoices(n) ==
  {[i \in 1..n |-> IF i = a THEN ka ELSE IF i = b THEN kb ELSE "plain"] :
     a \in 1..n, b \in 1..n, ka \in LinkKinds, kb \in LinkKinds}

BigCommon ==
  {LongTok("a"), LongTok("b"), LongTok("k"), LongTok("l"), LongTok("m"),
   LongTok("n"), LongTok("o")}

\* the two tokens that position i shares with position i - 1 in a path
PathPair(i) == {LongTok(ToString(i)), <<ToString(i), "z", "z", "z">>}

\* In the "group" layout plain records share two long tokens (similarity
\* 2/4); in the "path" layout a plain record shares two long tokens with
\* each of its two neighbours only (similarity 2/6).  "short" records share
\* only 3-character tokens with one another and nothing with the others;
\* "same" repeats record 1 of a group (similarity 1); "wide" meets a plain
\* record of a group at exactly 2/8; "bigA" and "bigB" meet at exactly 7/10.
LinkTokens(layout, i, kind) ==
  CASE kind = "short" -> {ShortTok("x"), ShortTok("y"), LongTok(ToString(i))}
    [] kind = "same" -> {LongTok("a"), LongTok("b"), LongTok(ToString(1))}
    [] kind = "wide" -> {LongTok("a"), LongTok("b"), LongTok("e"), LongTok("f"),
                         LongTok("g"), LongTok("h"), LongTok("i")}
    [] kind = "bigA" -> BigCommon \cup {LongTok("p")}
    [] kind = "bigB" -> BigCommon \cup {LongTok("q"), LongTok("r")}
    [] OTHER -> IF layout = "path" THEN PathPair(i) \cup PathPair(i + 1)
                ELSE {LongTok("a"), LongTok("b"), LongTok(ToString(i))}

LinkRecord(i, kind) ==
  CASE kind = "deleted" -> [createFossil(i) EXCEPT !.deleted = TRUE]
    [] kind = "superseded" -> [createFossil(i) EXCEPT !.supersededBy = i + 1]
    [] kind = "child" -> [createFossil(i) EXCEPT !.reentryOf = 1]
    [] kind = "childOfNext" -> [createFossil(i) EXCEPT !.reentryOf = i + 1]
    [] OTHER -> createFossil(i)

ExistingEdgeChoices ==
  {<<>>, <<Edge(1, 2)>>, <<Edge(3, 2)>>, <<Edge(1, 2), Edge(4, 1)>>}

MinClusterSizeChoices == {2, 3}
MinSimilarityChoices == {20, 50}

InitLink ==
  /\ \E n \in 0..MaxLinked :
       \E ks \in LinkKindChoices(n), layout \in LinkLayouts :
         /\ fossils = [i \in 1..n |-> LinkRecord(i, ks[i])]
         /\ tokenIndex = [i \in 1..n |-> JsSet(LinkTokens(layout, i, ks[i]))]
  /\ arg = NoArg
  /\ now = 0
  /\ op = "init"
  /\ res = <<>>
  /\ IdleWalk
  /\ FreshTokenizer

CallDetectClusters ==
  /\ op = "init"
  /\ \E minClusterSize \in MinClusterSizeChoices,
        minSimilarity \in MinSimilarityChoices :
       /\ arg' = [minClusterSize |-> minClusterSize,
                  minSimilarity |-> minSimilarity]
       /\ res' = detectClusters(fossils, tokenIndex, arg')
  /\ op' = "detectClusters"
  /\ UNCHANGED <<fossils, tokenIndex, now>>
  /\ UNCHANGED WalkVars
  /\ UNCHANGED TokenizerVars

CallSuggestConnections ==
  /\ op = "init"
  /\ \E existingEdges \in ExistingEdgeChoices :
       /\ arg' = [existingEdges |-> existingEdges]
       /\ res' = suggestConnections(fossils, tokenIndex, existingEdges)
  /\ op' = "suggestConnections"
  /\ UNCHANGED <<fossils, tokenIndex, now>>
  /\ UNCHANGED WalkVars
  /\ UNCHANGED TokenizerVars

NextLink == CallDetectClusters \/ CallSuggestConnections

SpecLink == InitLink /\ [][NextLink]_vars

\* --- vocabulary of the linking claims
ClustersDetected == op = "detectClusters"
ValidPositions ==
  {i \in 1..Len(fossils) : ~fossils[i].deleted /\ fossils[i].supersededBy = Null}
TokensAt(i) == tokenIndex[fossils[i].id].v
\* Jaccard similarity of two positions as a fraction of set sizes
SimilarAtLeast(i, j, pct) ==
  /\ TokensAt(i) # {}
  /\ TokensAt(j) # {}
  /\ Cardinality(TokensAt(i) \cap TokensAt(j)) * 100
       >= pct * Cardinality(TokensAt(i) \cup TokensAt(j))
ClusterEdge(i, j) ==
  i # j /\ SimilarAtLeast(i, j, arg.minSimilarity)
RECURSIVE ReachableFrom(_)
ReachableFrom(S) ==
  LET grown == S \cup {j \in ValidPositions : \E i \in S : ClusterEdge(i, j)}
  IN  IF grown = S THEN S ELSE ReachableFrom(grown)
Components == {ReachableFrom({i}) : i \in ValidPositions}
LargeComponents == {c \in Components : Cardinality(c) >= arg.minClusterSize}
IdsOf(c) == {fossils[i].id : i \in c}
ClusterIdSet(k) == SeqRange(res[k].ids)

\* C19: detectClusters returns exactly the connected components with at
\* least minClusterSize members of the graph whose nodes are the non-deleted,
\* non-superseded records and whose edges join records of Jaccard similarity
\* >= minSimilarity; the clusters are pairwise disjoint, hold no deleted or
\* superseded record, and there is none when fewer than minClusterSize
\* records are valid.
ClustersAreLargeComponents ==
  ClustersDetected =>
    /\ {ClusterIdSet(k) : k \in 1..Len(res)} = {IdsOf(c) : c \in LargeComponents}
    /\ \A k \in 1..Len(res) :
         /\ res[k].size = Cardinality(ClusterIdSet(k))
         /\ Len(res[k].ids) = res[k].size
         /\ SeqRange(res[k].fossils) = {fossils[i] : i \in
                {j \in 1..Len(fossils) : fossils[j].id \in ClusterIdSet(k)}}
         /\ \A f \in SeqRange(res[k].fossils) :
              ~f.deleted /\ f.supersededBy = Null
    /\ \A k, l \in 1..Len(res) :
         k # l => ClusterIdSet(k) \cap ClusterIdSet(l) = {}
    /\ Cardinality(ValidPositions) < arg.minClusterSize => res = <<>>

\* a cluster is returned that holds two records joined only through a
\* third, while a smaller component and a deleted or superseded record are
\* left out
ChainedClusterReached ==
  /\ ClustersDetected
  /\ Len(res) >= 1
  /\ Cardinality(LargeComponents) < Cardinality(Components)
  /\ ValidPositions # 1..Len(fossils)
  /\ \E c \in LargeComponents : \E i, j \in c : i # j /\ ~ClusterEdge(i, j)

\* --- suggestConnections
ConnectionsSuggested == op = "suggestConnections"
EdgeJoins(i, j) ==
  \E k \in 1..Len(arg.existingEdges) :
    \/ /\ arg.existingEdges[k].source = fossils[i].id
       /\ arg.existingEdges[k].target = fossils[j].id
    \/ /\ arg.existingEdges[k].source = fossils[j].id
       /\ arg.existingEdges[k].target = fossils[i].id
ReentryJoins(i, j) ==
  fossils[i].reentryOf = fossils[j].id \/ fossils[j].reentryOf = fossils[i].id
LongShared(i, j) == {token \in TokensAt(i) \cap TokensAt(j) : Len(token) > 3}
\* the pairs of positions the claim lets through
Suggestible(i, j) ==
  /\ i \in ValidPositions /\ j \in ValidPositions
  /\ fossils[i].id # fossils[j].id
  /\ ~ReentryJoins(i, j)
  /\ ~EdgeJoins(i, j)
  /\ SimilarAtLeast(i, j, SUGGEST_MIN)
  /\ ~SimilarAtLeast(i, j, SUGGEST_MAX)
  /\ Cardinality(LongShared(i, j)) >= MIN_SHARED
SuggestiblePairs ==
  {p \in (1..Len(fossils)) \X (1..Len(fossils)) : p[1] < p[2] /\ Suggestible(p[1], p[2])}
PositionOf(id) == CHOOSE i \in 1..Len(fossils) : fossils[i].id = id
SuggestedPairs ==
  {<<PositionOf(res[k].sourceId), PositionOf(res[k].targetId)>> : k \in 1..Len(res)}

BridgeLayouts == {"path", "twin"}
BridgeKinds ==
  {"plain", "deleted", "superseded", "short", "wide", "bridge", "strongBridge",
   "lean"}

BridgeKindChoices(n) ==
  {[i \in 1..n |-> IF i = a THEN ka ELSE IF i = b THEN kb ELSE "plain"] :
     a \in 1..n, b \in 1..n, ka \in BridgeKinds, kb \in BridgeKinds}

\* a "bridge" record shares one token with each neighbour of a path (1/6);
\* a "strongBridge" shares two with the record before it (2/5) and one with
\* the record after it (1/6); a "lean" record meets the first group of the
\* twin layout at 2/5 and the second at 1/6
BridgeTokens(layout, i, kind) ==
  CASE kind = "bridge" ->
         {LongTok(ToString(i)), LongTok(ToString(i + 1)), ShortTok("w")}
    [] kind = "strongBridge" -> PathPair(i) \cup {LongTok(ToString(i + 1))}
    [] kind = "lean" -> {LongTok("s"), LongTok("a"), LongTok("x"), LongTok("y")}
    [] kind \in {"short", "wide"} -> LinkTokens(layout, i, kind)
    [] OTHER -> IF layout = "twin"
                THEN {LongTok("s"), LongTok(IF i % 2 = 1 THEN "a" ELSE "c"),
                      LongTok(ToString(i))}
                ELSE PathPair(i) \cup PathPair(i + 1)

InitBridge ==
  /\ \E n \in 0..MaxLinked :
       \E ks \in BridgeKindChoices(n), layout \in BridgeLayouts :
         /\ fossils = [i \in 1..n |-> LinkRecord(i, ks[i])]
         /\ tokenIndex = [i \in 1..n |-> JsSet(BridgeTokens(layout, i, ks[i]))]
  /\ arg = NoArg
  /\ now = 0
  /\ op = "init"
  /\ res = <<>>
  /\ IdleWalk
  /\ FreshTokenizer

CallFindBridgeFossils ==
  /\ op = "init"
  /\ res' = findBridgeFossils(fossils, tokenIndex)
  /\ op' = "findBridgeFossils"
  /\ UNCHANGED <<fossils, tokenIndex, arg, now>>
  /\ UNCHANGED WalkVars
  /\ UNCHANGED TokenizerVars

NextBridge == CallFindBridgeFossils

SpecBridge == InitBridge /\ [][NextBridge]_vars

\* --- vocabulary of the bridge claim
BridgesFound == op = "findBridgeFossils"
RECURSIVE ReachableAt(_, _)
ReachableAt(S, pct) ==
  LET grown == S \cup {j \in ValidPositions :
                         \E i \in S : i # j /\ SimilarAtLeast(i, j, pct)}
  IN  IF grown = S THEN S ELSE ReachableAt(grown, pct)
\* clusters of size >= 2 at similarity threshold 0.25
ThematicClusters ==
  {c \in {ReachableAt({i}, BRIDGE_CLUSTER_SIMILARITY) : i \in ValidPositions} :
     Cardinality(c) >= BRIDGE_CLUSTER_SIZE}
SimilarityAt(i, j) ==
  IF TokensAt(i) = {} \/ TokensAt(j) = {} THEN Zero
  ELSE <<Cardinality(TokensAt(i) \cap TokensAt(j)),
         Cardinality(TokensAt(i) \cup TokensAt(j))>>
\* the clusters the record at x is similar to through some other member
LinkedClusters(x) ==
  {c \in ThematicClusters :
     \E j \in c \ {x} : SimilarAtLeast(x, j, BRIDGE_MIN_SIMILARITY)}
MaxSimilarityTo(x, c) ==
  CHOOSE p \in {SimilarityAt(x, j) : j \in c \ {x}} :
    \A j \in c \ {x} : FracLe(SimilarityAt(x, j), p)
RECURSIVE SumOverClusters(_, _)
SumOverClusters(x, cs) ==
  IF cs = {} THEN Zero
  ELSE LET c == CHOOSE d \in cs : TRUE
       IN  FracAdd(MaxSimilarityTo(x, c), SumOverClusters(x, cs \ {c}))
MeanOverClusters(x) ==
  LET sum == SumOverClusters(x, LinkedClusters(x))
  IN  <<sum[1], sum[2] * Cardinality(LinkedClusters(x))>>
BridgePosition(k) == PositionOf(res[k].fossil.id)

\* C21: every record findBridgeFossils returns is non-deleted and
\* non-superseded and is at least 0.15 similar to some other member of at
\* least two distinct thematic clusters (size >= 2 at threshold 0.25); the
\* result is empty when fewer than two such clusters exist, is ordered by
\* descending bridge strength (the mean of the per-cluster maximum
\* similarities) and has at most 5 entries.
BridgesLinkTwoClusters ==
  BridgesFound =>
    /\ \A k \in 1..Len(res) :
         /\ BridgePosition(k) \in ValidPositions
         /\ res[k].fossil = fossils[BridgePosition(k)]
         /\ Cardinality(LinkedClusters(BridgePosition(k))) >= BRIDGE_MIN_CLUSTERS
         /\ FracEq(res[k].bridgeStrength, MeanOverClusters(BridgePosition(k)))
    /\ Cardinality(ThematicClusters) < BRIDGE_MIN_CLUSTERS => res = <<>>
    /\ \A k \in 1..Len(res), l \in 1..Len(res) :
         k < l => FracLe(res[l].bridgeStrength, res[k].bridgeStrength)
    /\ Len(res) <= MAX_BRIDGES

\* more than five records bridge two clusters and the five returned are of
\* differing strength
FiveBridgesOfDifferingStrengthReached ==
  /\ BridgesFound
  /\ Len(res) = MAX_BRIDGES
  /\ Cardinality({x \in ValidPositions :
                    Cardinality(LinkedClusters(x)) >= BRIDGE_MIN_CLUSTERS})
       > MAX_BRIDGES
  /\ ~FracEq(res[1].bridgeStrength, res[MAX_BRIDGES].bridgeStrength)

\* =========================================================== SpecStreak
\* calculateStreak at three times of the UTC day, in time zones with and
\* without a change of offset near today, over records of the last MaxDays
\* days.
MaxDays == 5
TODAY == 1000

HourChoices == {0, 12, 23}
ShiftChoices ==
  {NoShift} \cup {[at |-> k, by |-> d] : k \in 1..2, d \in {-1, 1}}

\* what one day holds: live records and deleted records
DayLoads == {<<0, 0>>, <<1, 0>>, <<2, 0>>, <<0, 1>>, <<1, 1>>}

StreakRecord(day, isDeleted) ==
  [createFossil(day) EXCEPT !.dayKey = day, !.deleted = isDeleted]

\* the records of the days TODAY - back .. TODAY, oldest day first
RECURSIVE RecordsOfLoads(_, _)
RecordsOfLoads(loads, back) ==
  IF back < 0 THEN <<>>
  ELSE LET load == loads[back + 1]
           day == TODAY - back
       IN  [i \in 1..load[1] |-> StreakRecord(day, FALSE)]
           \o [i \in 1..load[2] |-> StreakRecord(day, TRUE)]
           \o RecordsOfLoads(loads, back - 1)

InitStreak ==
  /\ \E loads \in [1..MaxDays -> DayLoads] :
       fossils = RecordsOfLoads(loads, MaxDays - 1)
  /\ \E hour \in HourChoices : now = TODAY * HOURS_PER_DAY + hour
  /\ \E shift \in ShiftChoices : arg = [shift |-> shift]
  /\ tokenIndex = <<>>
  /\ op = "init"
  /\ res = [current |-> 0, longest |-> 0, total |-> 0, gaps |-> <<>>]
  /\ IdleWalk
  /\ FreshTokenizer

CallCalculateStreak ==
  /\ op = "init"
  /\ res' = calculateStreak(fossils, now, arg.shift)
  /\ op' = "calculateStreak"
  /\ UNCHANGED <<fossils, tokenIndex, arg, now>>
  /\ UNCHANGED WalkVars
  /\ UNCHANGED TokenizerVars

NextStreak == CallCalculateStreak

SpecStreak == InitStreak /\ [][NextStreak]_vars

\* --- vocabulary of the streak claims
StreakCalculated == op = "calculateStreak"
LiveDays == {fossils[i].dayKey : i \in {j \in 1..Len(fossils) : ~fossils[j].deleted}}
LiveCount == Cardinality({j \in 1..Len(fossils) : ~fossils[j].deleted})
\* the number of consecutive days from `day' backwards that are all live
RECURSIVE RunBackFrom(_)
RunBackFrom(day) == IF day \in LiveDays THEN 1 + RunBackFrom(day - 1) ELSE 0
TodayKey == now \div HOURS_PER_DAY
LongestRun ==
  IF LiveDays = {} THEN 0
  ELSE CHOOSE n \in 1..Cardinality(LiveDays) :
         /\ \E d \in LiveDays : RunBackFrom(d) = n
         /\ \A d \in LiveDays : RunBackFrom(d) <= n

\* C23: calculateStreak(records).current is the number of consecutive
\* calendar days, counted backwards from today, or from yesterday when today
\* has no record, that each hold a non-deleted record; 0 when neither today
\* nor yesterday holds one; a one-day gap ends the count and deleted records
\* never count.
CurrentIsRunToToday ==
  StreakCalculated =>
    res.current = IF TodayKey \in LiveDays THEN RunBackFrom(TodayKey)
                  ELSE RunBackFrom(TodayKey - 1)

\* C30: calculateStreak returns 0 <= current <= longest <= total, total the
\* number of non-deleted records and longest the length of the longest run
\* of consecutive calendar days that each hold a non-deleted record.
StreakOrdered ==
  StreakCalculated =>
    /\ 0 <= res.current
    /\ res.current <= res.longest
    /\ res.longest <= res.total
    /\ res.total = LiveCount
    /\ res.longest = LongestRun

\* ========================================================== SpecDismiss
\* The resurfacing effect and the dismiss handler of the application on a
\* vault of records sealed a week ago, with the clock moving over the
\* following days.
MaxDismiss == 8
MaxVault == 2
SEALED_AT == (TODAY - MIN_AGE_DAYS) * HOURS_PER_DAY

\* the instants at which the clock is read: the first and the last hour of
\* the day the records turn 7 days old, and midnight of the next three days
ClockChoices ==
  {SEALED_AT + h : h \in {168, 191, 192, 216, 240, 264}}

ComingShiftChoices ==
  {NoShift} \cup {[at |-> 1, by |-> d] : d \in {-1, 1}}

VaultRecord(i, dismissCount) ==
  [createFossil(i) EXCEPT !.dayKey = getDayKey(SEALED_AT),
                          !.createdAt = SEALED_AT,
                          !.dismissCount = dismissCount]

\* the state of the component as it mounts: the resurfacing effect is due,
\* no conflict dialog; before, dismissed and shift keep what the last
\* handler was called on, opsDone counts the handlers the user has run in
\* the session (at most MaxOps)
MaxOps == 3
AppIdle ==
  [effectDue |-> TRUE, renderedKey |-> Null, opsDone |-> 0,
   pendingConflicts |-> {}, showConflictModal |-> FALSE,
   before |-> <<>>, dismissed |-> JsNull, shift |-> NoShift]

\* a handler that keeps nothing of the call before
ForgetCall(a) ==
  [a EXCEPT !.before = <<>>, !.dismissed = JsNull, !.shift = NoShift]

\* one more handler run by the user
Counted(a) == [a EXCEPT !.opsDone = @ + 1]

InitDismiss ==
  /\ \E n \in 1..MaxVault, k \in 0..MaxDismiss :
       fossils = [i \in 1..n |-> VaultRecord(i, IF i = 1 THEN k ELSE 0)]
  /\ now \in {SEALED_AT + 168, SEALED_AT + 191}
  /\ tokenIndex = <<>>
  /\ arg = AppIdle
  /\ op = "init"
  /\ res = JsNull
  /\ IdleWalk
  /\ FreshTokenizer

\* the effect that computes resurfaceFossil (res): no record of today, no
\* active probe, some visible record.  It runs after a render in which
\* data.fossils or todayKey differ from the render before.
ResurfaceEffect ==
  /\ arg.effectDue \/ arg.renderedKey # getDayKey(now)
  /\ arg' = [ForgetCall(arg) EXCEPT !.effectDue = FALSE,
                                    !.renderedKey = getDayKey(now)]
  /\ \E draw \in DrawChoices :
       res' = IF /\ \A i \in 1..Len(fossils) :
                      fossils[i].deleted \/ fossils[i].dayKey # getDayKey(now)
                 /\ Len(visibleOf(fossils)) > 0
              THEN selectResurfaceFossil(fossils, getDayKey(now), now, draw)
              ELSE JsNull
  /\ op' = "resurface"
  /\ UNCHANGED <<fossils, tokenIndex, now>>
  /\ UNCHANGED WalkVars
  /\ UNCHANGED TokenizerVars

\* handleResurfaceDismiss; arg keeps what the handler was called on
HandleResurfaceDismiss ==
  /\ ~arg.effectDue /\ arg.opsDone < MaxOps
  /\ res # JsNull
  /\ \E shift \in ComingShiftChoices :
       /\ fossils' = DismissIn(fossils, res,
                               getNextDismissDate(res.dismissCount, now, shift))
       /\ arg' = [Counted(arg) EXCEPT !.dismissed = res, !.before = fossils,
                              !.shift = shift, !.effectDue = TRUE]
  /\ res' = JsNull
  /\ op' = "dismiss"
  /\ UNCHANGED <<tokenIndex, now>>
  /\ UNCHANGED WalkVars
  /\ UNCHANGED TokenizerVars

\* the clock moves on
ClockTick ==
  /\ \E t \in ClockChoices : t > now /\ now' = t
  /\ op' = "tick"
  /\ UNCHANGED <<fossils, tokenIndex, arg, res>>
  /\ UNCHANGED WalkVars
  /\ UNCHANGED TokenizerVars

NextDismiss == ResurfaceEffect \/ HandleResurfaceDismiss \/ ClockTick

SpecDismiss == InitDismiss /\ [][NextDismiss]_vars

\* --- vocabulary of the dismissal claim
Dismissed == op = "dismiss"
IntervalFor(k) ==
  CASE k = 0 -> 1 [] k = 1 -> 2 [] k = 2 -> 3 [] k = 3 -> 5 [] k = 4 -> 8
    [] k = 5 -> 13 [] k = 6 -> 21 [] OTHER -> 34

\* C27: dismissing the resurfaced record when its dismissCount is k sets its
\* dismissCount to k+1 and its dismissedUntil to today plus
\* DISMISS_INTERVALS[min(k, 7)] days (1, 2, 3, 5, 8, 13, 21, 34, and 34 for
\* every k >= 7), leaves every other record unchanged, and the record is not
\* selected for resurfacing on any day before that date; the interval is
\* strictly increasing in k for k = 0..7.
DismissSetsInterval ==
  /\ Dismissed =>
       \A i \in 1..Len(fossils) :
         IF arg.before[i].id = arg.dismissed.id
         THEN /\ fossils[i].dismissCount = arg.before[i].dismissCount + 1
              /\ fossils[i].dismissedUntil
                   = DateOfDayKey(getDayKey(now)
                                    + IntervalFor(arg.before[i].dismissCount))
              /\ fossils[i] = [arg.before[i] EXCEPT
                                 !.dismissCount = fossils[i].dismissCount,
                                 !.dismissedUntil = fossils[i].dismissedUntil]
         ELSE fossils[i] = arg.before[i]
  /\ (op = "resurface" /\ res # JsNull /\ res.dismissedUntil # Null) =>
       getDayKey(now) >= getDayKey(res.dismissedUntil)
  /\ \A k \in 0..6 : IntervalFor(k) < IntervalFor(k + 1)

\* ============================================================ SpecVault
\* The handlers of the application that change the collection, on a small
\* vault: seal (with the conflict dialog), quick capture, soft delete,
\* dismiss, reinforce and merge, with the clock moving over a few days.
MaxCollection == 3
SealQualityChoices == {2}

VisibleIds(fs) == {fs[i].id : i \in {j \in 1..Len(fs) : ~fs[j].deleted}}
AllIds(fs) == {fs[i].id : i \in 1..Len(fs)}

\* data.activeProbe?.reentryOf || reentryWarning?.id || null: no re-entry,
\* or a re-entry of the record last added
ReentryChoices(fs) == {Null} \cup (IF Len(fs) > 0 THEN {fs[1].id} ELSE {})
MaxRevisits == 1

InitVault ==
  /\ \E n \in 1..MaxVault : fossils = [i \in 1..n |-> VaultRecord(i, 0)]
  /\ now = SEALED_AT + 240
  /\ tokenIndex = <<>>
  /\ arg = AppIdle
  /\ op = "init"
  /\ res = JsNull
  /\ IdleWalk
  /\ FreshTokenizer

\* sealFossil() as a change of the state; nothing when canSeal is false
SealFossil(reentryOf, quality) ==
  /\ fossils' = IF HasTodayFossil(fossils, now) THEN fossils
                ELSE SealIn(fossils,
                            NewFossil(NewId(fossils), now, reentryOf, quality))
  /\ res' = res
  /\ UNCHANGED <<tokenIndex, now>>
  /\ UNCHANGED WalkVars
  /\ UNCHANGED TokenizerVars

\* the SEAL FOSSIL button, enabled when canSeal: the conflicts found for
\* the typed invariant are some of the visible records
HandleSealWithConflictCheck ==
  /\ ~arg.effectDue /\ arg.opsDone < MaxOps
  /\ ~arg.showConflictModal
  /\ ~HasTodayFossil(fossils, now)
  /\ Len(fossils) < MaxCollection
  /\ \E conflicts \in SUBSET VisibleIds(fossils) :
       IF conflicts # {}
       THEN /\ arg' = [Counted(ForgetCall(arg)) EXCEPT
                              !.pendingConflicts = conflicts,
                              !.showConflictModal = TRUE]
            /\ op' = "conflictsFound"
            /\ UNCHANGED <<fossils, tokenIndex, now, res>>
            /\ UNCHANGED WalkVars
            /\ UNCHANGED TokenizerVars
       ELSE /\ \E reentryOf \in ReentryChoices(fossils),
                  quality \in SealQualityChoices :
                 SealFossil(reentryOf, quality)
            /\ arg' = [Counted(ForgetCall(arg)) EXCEPT !.before = fossils,
                                              !.effectDue = TRUE]
            /\ op' = "sealFossil"

\* SUPERSEDE OLD in the conflict dialog
HandleConflictSupersede ==
  /\ ~arg.effectDue /\ arg.opsDone < MaxOps
  /\ arg.showConflictModal
  /\ \E conflictFossilId \in arg.pendingConflicts :
       /\ fossils' = SupersedePendingIn(fossils, conflictFossilId)
       /\ arg' = [Counted(ForgetCall(arg)) EXCEPT
                    !.pendingConflicts = @ \ {conflictFossilId},
                    !.effectDue = TRUE]
  /\ op' = "conflictSupersede"
  /\ UNCHANGED <<tokenIndex, now, res>>
  /\ UNCHANGED WalkVars
  /\ UNCHANGED TokenizerVars

\* KEEP BOTH in the conflict dialog
HandleConflictCoexist ==
  /\ ~arg.effectDue /\ arg.opsDone < MaxOps
  /\ arg.showConflictModal
  /\ \E conflictFossilId \in arg.pendingConflicts :
       arg' = [Counted(ForgetCall(arg)) EXCEPT
                 !.pendingConflicts = @ \ {conflictFossilId}]
  /\ op' = "conflictCoexist"
  /\ UNCHANGED <<fossils, tokenIndex, now, res>>
  /\ UNCHANGED WalkVars
  /\ UNCHANGED TokenizerVars

\* SEAL ANYWAY in the conflict dialog
HandleForceSeal ==
  /\ ~arg.effectDue /\ arg.opsDone < MaxOps
  /\ arg.showConflictModal
  /\ Len(fossils) < MaxCollection
  /\ \E reentryOf \in ReentryChoices(fossils),
        quality \in SealQualityChoices :
       SealFossil(reentryOf, quality)
  /\ arg' = [Counted(ForgetCall(arg)) EXCEPT
                        !.pendingConflicts = {},
                        !.showConflictModal = FALSE,
                        !.before = fossils,
                        !.effectDue = ~HasTodayFossil(fossils, now)]
  /\ op' = "forceSeal"

HandleQuickCapture ==
  /\ ~arg.effectDue /\ arg.opsDone < MaxOps
  /\ Len(fossils) < MaxCollection
  /\ \E reentryOf \in ReentryChoices(fossils) :
       fossils' = QuickCaptureIn(fossils,
                                 NewFossil(NewId(fossils), now, reentryOf, 1))
  /\ arg' = [Counted(ForgetCall(arg)) EXCEPT !.effectDue = TRUE]
  /\ op' = "quickCapture"
  /\ UNCHANGED <<tokenIndex, now, res>>
  /\ UNCHANGED WalkVars
  /\ UNCHANGED TokenizerVars

\* the delete button of a listed record, confirmed
DeleteFossil ==
  /\ ~arg.effectDue /\ arg.opsDone < MaxOps
  /\ \E id \in VisibleIds(fossils) : fossils' = DeleteIn(fossils, id)
  /\ arg' = [Counted(ForgetCall(arg)) EXCEPT !.effectDue = TRUE]
  /\ op' = "deleteFossil"
  /\ UNCHANGED <<tokenIndex, now, res>>
  /\ UNCHANGED WalkVars
  /\ UNCHANGED TokenizerVars

HandleResurfaceReinforce ==
  /\ ~arg.effectDue /\ arg.opsDone < MaxOps
  /\ res # JsNull
  /\ res.reinforceCount < MaxRevisits
  /\ fossils' = ReinforceIn(fossils, res, now)
  /\ arg' = [Counted(ForgetCall(arg)) EXCEPT !.effectDue = TRUE]
  /\ res' = JsNull
  /\ op' = "reinforce"
  /\ UNCHANGED <<tokenIndex, now>>
  /\ UNCHANGED WalkVars
  /\ UNCHANGED TokenizerVars

\* MERGE with two or three graph nodes selected; of targets sealed at the
\* same instant the sort keeps the one selected first in front
HandleMergeFossils ==
  /\ ~arg.effectDue /\ arg.opsDone < MaxOps
  /\ Len(fossils) < MaxCollection
  /\ \E mergeTargets \in SUBSET VisibleIds(fossils) :
       /\ Cardinality(mergeTargets) \in 2..3
       /\ LET fossilsToMerge ==
                SelectSeq(fossils, LAMBDA f : f.id \in mergeTargets)
          IN  \E k \in 1..Len(fossilsToMerge) :
                /\ \A j \in 1..Len(fossilsToMerge) :
                     fossilsToMerge[j].createdAt <= fossilsToMerge[k].createdAt
                /\ fossils' = MergeIn(fossils,
                                      MergedFossil(NewId(fossils), now,
                                                   fossilsToMerge,
                                                   fossilsToMerge[k].id),
                                      mergeTargets)
  /\ arg' = [Counted(ForgetCall(arg)) EXCEPT !.effectDue = TRUE]
  /\ op' = "mergeFossils"
  /\ UNCHANGED <<tokenIndex, now, res>>
  /\ UNCHANGED WalkVars
  /\ UNCHANGED TokenizerVars

NextVault ==
  \/ ResurfaceEffect
  \/ ClockTick
  \/ HandleSealWithConflictCheck
  \/ HandleConflictSupersede
  \/ HandleConflictCoexist
  \/ HandleForceSeal
  \/ HandleQuickCapture
  \/ DeleteFossil
  \/ HandleResurfaceDismiss
  \/ HandleResurfaceReinforce
  \/ HandleMergeFossils

SpecVault == InitVault /\ [][NextVault]_vars

\* --- vocabulary of the supersededBy claim
SealedJustNow ==
  op \in {"sealFossil", "forceSeal"} /\ Len(fossils) = Len(arg.before) + 1

\* C28: after any sequence of the operations of the application every
\* record's supersededBy is null or the id of a record of the collection,
\* and once a fossil is sealed after 'supersede' was chosen in the conflict
\* dialog, the superseded record's supersededBy is the id of the new fossil.
SupersededByIsRecordId ==
  /\ \A i \in 1..Len(fossils) :
       \/ fossils[i].supersededBy = Null
       \/ \E j \in 1..Len(fossils) : fossils[j].id = fossils[i].supersededBy
  /\ SealedJustNow =>
       \A i \in 1..Len(arg.before) :
         arg.before[i].supersededBy = PENDING
           => fossils[i + 1].supersededBy = fossils[1].id

\* ======================================================= SpecEngagement
\* calculateEngagementScore on one record, over every hour of the day for
\* the call and for the last revisit.
MaxCount == 1
HoursOfDay == 0..(HOURS_PER_DAY - 1)

LastRevisitChoices ==
  {Null} \cup {(TODAY - 1) * HOURS_PER_DAY + h : h \in HoursOfDay}

InitEngagement ==
  /\ \E last \in LastRevisitChoices, quality \in {3, 4},
        reinforceCount \in 0..MaxCount, reuseCount \in 0..MaxCount,
        dismissCount \in {0, 3}, skipCount \in {0, 4} :
       fossils = <<[createFossil(1) EXCEPT
                      !.lastRevisitedAt = last,
                      !.quality = quality,
                      !.reinforceCount = reinforceCount,
                      !.reuseCount = reuseCount,
                      !.dismissCount = dismissCount,
                      !.skipCount = skipCount]>>
  /\ now \in {TODAY * HOURS_PER_DAY + h : h \in HoursOfDay}
  /\ tokenIndex = <<>>
  /\ arg = NoArg
  /\ op = "init"
  /\ res = 0
  /\ IdleWalk
  /\ FreshTokenizer

CallCalculateEngagementScore ==
  /\ op = "init"
  /\ res' = calculateEngagementScore(fossils[1], now)
  /\ op' = "calculateEngagementScore"
  /\ UNCHANGED <<fossils, tokenIndex, arg, now>>
  /\ UNCHANGED WalkVars
  /\ UNCHANGED TokenizerVars

NextEngagement == CallCalculateEngagementScore
SpecEngagement == InitEngagement /\ [][NextEngagement]_vars

\* --- vocabulary of the time-of-day claim
EngagementScored == op = "calculateEngagementScore"

\* the part of the score that does not come from the time of day
InteractionScore(f) ==
    f.reinforceCount * 24000 + f.reuseCount * 16000
  + (IF f.quality >= 4 THEN 16000 ELSE 0)
  - (IF f.dismissCount > 2 THEN 24000 ELSE 0)
  - (IF f.skipCount > 3 THEN 16000 ELSE 0)

\* how far apart two hours of the day are on the 24-hour clock
ClockDistance(h1, h2) ==
  Min2(Abs(h1 - h2), HOURS_PER_DAY - Abs(h1 - h2))

TIME_BONUS == 8000

\* C29: the score holds the time-of-day bonus of 0.1 exactly when the hour of
\* the call is within 2 hours of the hour of lastRevisitedAt on the 24-hour
\* clock (23 and 0 are 1 apart), and never when lastRevisitedAt is null.
BonusWithinTwoHoursOnClock ==
  EngagementScored =>
    LET f == fossils[1]
        near == /\ f.lastRevisitedAt # Null
                /\ ClockDistance(now % HOURS_PER_DAY,
                                 f.lastRevisitedAt % HOURS_PER_DAY) <= 2
    IN  res = InteractionScore(f) + (IF near THEN TIME_BONUS ELSE 0)

\* ============================================================ SpecWalk
\* findRelatedFossils and getTrail follow reentryOf links in loops; they
\* are modelled one loop step at a time, pc being the position in the code:
\*   "idle"     no call yet
\*   "while"    findRelatedFossils: about to test `while (root.reentryOf)'
\*   "find"     findRelatedFossils: inside the loop body, about to look up
\*              the parent
\*   "descend"  findRelatedFossils: inside findDescendants(root.id)
\*   "rank"     findRelatedFossils: about to filter, sort and slice
\*   "trail"    getTrail: about to test the while condition
\*   "done"     the call has returned res
\* root and cur hold positions in the record list.
DEFAULT_MIN_SIMILARITY == 15
DEFAULT_MAX_RESULTS == 5

\* token set of the record at position i of a traversal input
WalkTokens(i) == GraphTokenSets[((i - 1) % Len(GraphTokenSets)) + 1]

\* allFossils.find(f => f.id === id): the first position, 0 if none
FindById(fs, id) ==
  IF \E k \in 1..Len(fs) : fs[k].id = id
  THEN CHOOSE k \in 1..Len(fs) : fs[k].id = id /\ \A j \in 1..(k - 1) : fs[j].id # id
  ELSE 0

\* fossilMap[id]: Object.fromEntries keeps the last record of an id, 0 if none
FossilMapAt(fs, id) ==
  IF \E k \in 1..Len(fs) : fs[k].id = id
  THEN CHOOSE k \in 1..Len(fs) : fs[k].id = id /\ \A j \in (k + 1)..Len(fs) : fs[j].id # id
  ELSE 0

InitWalk ==
  /\ \E n \in 1..MaxFossils :
       \E ks \in {k \in KindChoices(n) : \A i \in 1..n : k[i] # "deletedSuperseded"} :
         \E ls \in LinkChoices(n) :
           /\ fossils = [i \in 1..n |->
                [createFossil(i) EXCEPT
                   !.deleted = IsDeletedKind(ks[i]),
                   !.supersededBy = IF IsSupersededKind(ks[i]) THEN i + 1 ELSE Null,
                   !.reentryOf = ls[i]]]
           /\ tokenIndex = [i \in {k \in 1..n : ~IsDeletedKind(ks[k])} |-> WalkTokens(i)]
  /\ arg = NoArg
  /\ now = 0
  /\ op = "none" /\ res = <<>>
  /\ IdleWalk
  /\ FreshTokenizer

\* findRelatedFossils(fossils[arg.target], fossils, tokenIndex, options):
\* entry, up to `let root = targetFossil'
CallFindRelatedFossils ==
  /\ pc = "idle"
  /\ \E t \in 1..Len(fossils) :
       \E ex \in BOOLEAN :
         /\ arg' = [target |-> t,
                    minSimilarity |-> DEFAULT_MIN_SIMILARITY,
                    maxResults |-> DEFAULT_MAX_RESULTS,
                    excludeChain |-> ex]
         /\ IF ex
            THEN root' = t /\ pc' = "while"
            ELSE root' = root /\ pc' = "rank"
  /\ op' = "findRelatedFossils"
  /\ chainIds' = {}
  /\ UNCHANGED <<fossils, tokenIndex, now, TokenizerVars, res, stack, cur, seen, trail>>

\* findDescendants(root.id) is entered: chainIds.add(id), forEach from the start
EnterDescendants(r) ==
  /\ pc' = "descend"
  /\ chainIds' = {fossils[r].id}
  /\ stack' = <<[id |-> fossils[r].id, k |-> 1]>>

\* while (root.reentryOf)
WhileRootHasParent ==
  /\ pc = "while"
  /\ IF fossils[root].reentryOf # Null
     THEN pc' = "find" /\ UNCHANGED <<chainIds, stack>>
     ELSE EnterDescendants(root)
  /\ UNCHANGED <<InputVars, TokenizerVars, op, res, root, cur, seen, trail>>

\* const parent = allFossils.find(...); if (parent) root = parent; else break;
FindParent ==
  /\ pc = "find"
  /\ LET parent == FindById(fossils, fossils[root].reentryOf)
     IN  IF parent # 0
         THEN root' = parent /\ pc' = "while" /\ UNCHANGED <<chainIds, stack>>
         ELSE root' = root /\ EnterDescendants(root)
  /\ UNCHANGED <<InputVars, TokenizerVars, op, res, cur, seen, trail>>

\* one step of findDescendants: the forEach of the innermost call runs on to
\* its next non-deleted child and recurses into it, or ends and returns
DescendStep ==
  /\ pc = "descend"
  /\ stack # <<>>
  /\ LET top == stack[Len(stack)]
         IsChild(k) == fossils[k].reentryOf = top.id /\ ~fossils[k].deleted
         children == {k \in top.k..Len(fossils) : IsChild(k)}
     IN  IF children # {}
         THEN LET k == CHOOSE c \in children : \A d \in children : c <= d
              IN  /\ chainIds' = chainIds \cup {fossils[k].id}
                  /\ stack' = Append([stack EXCEPT ![Len(stack)].k = k + 1],
                                     [id |-> fossils[k].id, k |-> 1])
         ELSE /\ stack' = SubSeq(stack, 1, Len(stack) - 1)
              /\ chainIds' = chainIds
  /\ UNCHANGED <<InputVars, TokenizerVars, op, res, pc, root, cur, seen, trail>>

\* findDescendants(root.id) has returned
DescendDone ==
  /\ pc = "descend"
  /\ stack = <<>>
  /\ pc' = "rank"
  /\ UNCHANGED <<InputVars, TokenizerVars, op, res, root, chainIds, stack, cur, seen, trail>>

\* the for loop pushing the related records, in list order
RECURSIVE RelatedEntries(_, _, _, _, _, _)
RelatedEntries(fs, k, target, targetTokens, chain, options) ==
  IF k > Len(fs) THEN <<>>
  ELSE LET fossil == fs[k]
           rest == RelatedEntries(fs, k + 1, target, targetTokens, chain, options)
       IN  IF fossil.id = target.id \/ fossil.deleted \/ fossil.supersededBy # Null
           THEN rest
           ELSE IF options.excludeChain /\ fossil.id \in chain THEN rest
           ELSE IF AtLeastPct(getJaccard(targetTokens, TokensFor(tokenIndex, fossil)),
                              options.minSimilarity)
           THEN <<[fossil |-> fossil,
                   similarity |-> RoundPct(getJaccard(targetTokens,
                                                      TokensFor(tokenIndex, fossil)))]>>
                \o rest
           ELSE rest

\* the rest of findRelatedFossils: filter, sort by similarity, slice
\* (the sharedConcepts field of an entry is left out); `related' and
\* `sorted' are the code's locals, each computed once
RankRelated ==
  /\ pc = "rank"
  /\ \E related \in {RelatedEntries(fossils, 1, fossils[arg.target],
                                     TokensFor(tokenIndex, fossils[arg.target]),
                                     chainIds, arg)} :
       \E sorted \in {SortBySimilarity(related)} :
         res' = SliceTo(sorted, arg.maxResults)
  /\ pc' = "done"
  /\ UNCHANGED <<InputVars, TokenizerVars, op, root, chainIds, stack, cur, seen, trail>>

\* getTrail(fossils[arg.target]): entry
CallGetTrail ==
  /\ pc = "idle"
  /\ \E t \in 1..Len(fossils) :
       /\ arg' = [target |-> t]
       /\ cur' = t
  /\ op' = "getTrail"
  /\ seen' = {} /\ trail' = <<>>
  /\ pc' = "trail"
  /\ UNCHANGED <<fossils, tokenIndex, now, TokenizerVars, res, root, chainIds, stack>>

\* while (cur?.reentryOf && fossilMap[cur.reentryOf] && !seen.has(cur.reentryOf))
TrailStep ==
  /\ pc = "trail"
  /\ LET parentId == fossils[cur].reentryOf
     IN  IF parentId # Null /\ FossilMapAt(fossils, parentId) # 0 /\ parentId \notin seen
         THEN /\ seen' = seen \cup {parentId}
              /\ cur' = FossilMapAt(fossils, parentId)
              /\ trail' = Append(trail, fossils[FossilMapAt(fossils, parentId)])
              /\ UNCHANGED <<pc, res>>
         ELSE /\ pc' = "done" /\ res' = trail
              /\ UNCHANGED <<cur, seen, trail>>
  /\ UNCHANGED <<InputVars, TokenizerVars, op, root, chainIds, stack>>

NextWalk ==
  \/ CallFindRelatedFossils
  \/ WhileRootHasParent
  \/ FindParent
  \/ DescendStep
  \/ DescendDone
  \/ RankRelated
  \/ CallGetTrail
  \/ TrailStep
SpecWalk == InitWalk /\ [][NextWalk]_vars
\* the JavaScript engine keeps running a call that has not returned
FairSpecWalk == InitWalk /\ [][NextWalk]_vars /\ WF_vars(NextWalk)

\* the re-entry chain of a record, read off the record list alone
\* position reached from position k by following reentryOf `steps' times,
\* stopping at a record whose reentryOf is null or names no record
RECURSIVE ClimbFrom(_, _)
ClimbFrom(k, steps) ==
  IF steps = 0 \/ fossils[k].reentryOf = Null
     \/ FindById(fossils, fossils[k].reentryOf) = 0
  THEN k
  ELSE ClimbFrom(FindById(fossils, fossils[k].reentryOf), steps - 1)
ChainRootId(k) == fossils[ClimbFrom(k, Len(fossils))].id
\* the ids met by following reentryOf from position k
RECURSIVE AncestorIds(_, _)
AncestorIds(k, steps) ==
  IF steps = 0 \/ fossils[k].reentryOf = Null THEN {}
  ELSE {fossils[k].reentryOf} \cup
       (IF FindById(fossils, fossils[k].reentryOf) = 0 THEN {}
        ELSE AncestorIds(FindById(fossils, fossils[k].reentryOf), steps - 1))
InChainOf(x, t) ==
  \/ fossils[x].id = ChainRootId(t)
  \/ ChainRootId(t) \in AncestorIds(x, Len(fossils))
RelatedReturned == op = "findRelatedFossils" /\ pc = "done"
SimilarityToTarget(f) ==
  getJaccard(TokensFor(tokenIndex, fossils[arg.target]), TokensFor(tokenIndex, f))

\* C18: findRelatedFossils never returns the target, a deleted record, a
\* superseded record, a record less similar to the target than
\* minSimilarity or, with excludeChain, a record of the target's re-entry
\* chain (the root reached from the target and all that descends from it).
RelatedExcludesChain ==
  RelatedReturned =>
    \A e \in 1..Len(res) :
      /\ res[e].fossil.id # fossils[arg.target].id
      /\ ~res[e].fossil.deleted
      /\ res[e].fossil.supersededBy = Null
      /\ AtLeastPct(SimilarityToTarget(res[e].fossil), arg.minSimilarity)
      /\ arg.excludeChain =>
           \A x \in 1..Len(fossils) :
             fossils[x] = res[e].fossil => ~InChainOf(x, arg.target)

\* C2: every traversal of re-entry chains terminates, cycles and
\* self-references included: findRelatedFossils with excludeChain = true
\* and getTrail both finish and return a result.
TraversalsTerminate == <>(pc = "done")

====
